---------------------------- MODULE Spec2Model ----------------------------
(* A verification model of BEON-IPQuality: the MMDB reader and its hot      *)
(* reload, the reputation store, the compiler that turns the store's        *)
(* snapshot into the reputation DB file, the scoring engine, and the feed   *)
(* ingestor.                                                                *)
(*                                                                          *)
(* Each subsystem has its own specification over the shared variables:      *)
(*   SpecReader   Reader.LookupAll / Reader.Reload (internal/mmdb/reader.go)*)
(*   SpecCompile  store upserts -> Compiler.Compile -> MMDB file -> lookup  *)
(*   SpecWriter   CompileToMMDB's temporary file and rename                 *)
(*   SpecStore    the store's upsert on (ip_start, ip_end, source)          *)
(*   SpecOrder    the upsert applied to two observations in both orders     *)
(*   SpecRange    IPRangeFromPrefix                                         *)
(*   SpecFetch    Ingestor.fetchSource and its retry loop                   *)
(*   SpecDaemon   Ingestor.Start, cron ticks, signal, Ingestor.Stop         *)
(*   SpecRun      the daemon's initial run of all feeds                     *)
(*   SpecOnce     Ingestor.RunOnce and the exit code of -once mode          *)
(*   SpecSweep    the store, the clock and PostgresDB.CleanupExpired        *)
(*   SpecLookup   Reader.LookupAll and the errors of its three lookups      *)
(*   SpecNode     the judge node's lock around checks and reloads           *)
(*   SpecReload   concurrent calls of Reader.Reload                         *)
(*   SpecScore    Scorer.CalculateScore                                     *)
(*   SpecDecay    Scorer.calculateDecay                                     *)
(*   SpecClassify Scorer.ClassifyRisk                                       *)
(*   SpecParse    feed lines through parseContent, storeEntries, compile    *)
(*   SpecLevels   the three risk-level classifiers on one score             *)
(*   SpecFlag     callers of Ingestor.Start and Ingestor.Stop               *)
(*   SpecOnceFair RunOnce under any configuration, with fair scheduling     *)
(*   SpecOnceWide RunOnce with all feed goroutines running at once          *)
(*   SpecJobs     overlapping runs of storeEntries for one feed             *)
(*   SpecApi      the API's performIPCheck and ReloadMMDB handlers          *)
(*   SpecLines    parseContent line by line, for every format               *)
(* A specification leaves the variables of the other subsystems unchanged.  *)
EXTENDS Integers, Sequences, FiniteSets, TLC

VARIABLES
    \* ---- Reader (internal/mmdb/reader.go) ----
    reputationDB,   \* Reader.reputationDB: installed handle id, NilDB when nil
    geoipDB,        \* Reader.geoipDB
    asnDB,          \* Reader.asnDB
    muReaders,      \* Reader.mu: the lookups holding the read lock
    muWriter,       \* Reader.mu: the reload holding the write lock, or NoThread
    hstate,         \* per database handle: "unopened", "open" or "closed"
    lk,             \* per lookup thread: position and locals of LookupAll
    rl,             \* per reload thread: position and locals of Reload
    installed       \* history: every handle triple the Reader has held

VARIABLES
    \* ---- store, compiler and reputation DB file ----
    now,            \* the wall clock, in ticks of TickHours hours
    store,          \* table ip_reputation: a set of rows
    whitelist,      \* table whitelist: a set of rows
    comp,           \* Compiler.Compile: position and locals
    fs,             \* the files at mmdb.output_path ("out") and at its .tmp ("tmp")
    fileMeta        \* history: snapshot and time the file at "out" was compiled from

readerVars == <<reputationDB, geoipDB, asnDB, muReaders, muWriter, hstate,
                lk, rl, installed>>

VARIABLES
    \* ---- callers of the store's upserts ----
    upserted,       \* history: key, confidence and weight of every entry applied
    dbResult        \* what the last upsert call returned

compileVars == <<now, store, whitelist, comp, fs, fileMeta>>

upsertVars == <<upserted, dbResult>>

VARIABLES
    \* ---- two observations upserted in both orders ----
    obsA,           \* the first observation
    obsB,           \* the second observation
    tabAB,          \* table ip_reputation after upserting obsA, then obsB
    tabBA,          \* table ip_reputation after upserting obsB, then obsA
    ordStep         \* how many of the two upserts each table has had

VARIABLES
    \* ---- calls of IPRangeFromPrefix ----
    rngP,           \* a netip.Prefix
    rngQ,           \* another netip.Prefix
    rngOut          \* the (start, end) returned for rngP and for rngQ

VARIABLES
    \* ---- one call of fetchSource ----
    maxRetries,     \* config.Ingestor.MaxRetries
    attempt,        \* the loop variable
    resp,           \* status of the last response, "nil" when there is none
    fetchErr,       \* err of the last httpClient.Do
    fetchPc,        \* position in fetchSource
    fetchLog,       \* what the call has done: HTTP attempts (by outcome) and sleeps
    fetchRet        \* what fetchSource returned

VARIABLES
    \* ---- the ingestor: Start / RunOnce / Stop and the feed goroutines ----
    mode,           \* "daemon" or "once" (the -once flag), "off" when not run
    mainPc,         \* position of main
    startPc,        \* position of Start (daemon) or RunOnce (once)
    toSpawn,        \* enabled feeds the loop has not started yet
    cancelled,      \* ctx.Done() is closed
    running,        \* Ingestor.running
    wg,             \* counter of Ingestor.wg
    sem,            \* number of tokens in the semaphore channel
    cronRunning,    \* the cron scheduler is started and not stopped
    ticks,          \* cron ticks fired so far
    workers,        \* the goroutines processing one feed each
    lateStarts,     \* fetches and batch upserts begun after cancellation
    totalEntries,   \* RunOnce: totalEntries
    totalStored,    \* RunOnce: totalStored
    errors,         \* RunOnce: len(errors)
    okTotalStored,  \* entries of the batches that had no error, over all feeds
    anyFailed,      \* a source of a finished feed failed to fetch or to store
    exitCode        \* os.Exit code of -once mode, -1 while running

VARIABLES
    \* ---- one call of Reader.LookupAll ----
    laDbs,          \* what each of the three databases does for the address
    laPc,           \* position in LookupAll
    laResult        \* the IPCheckResult built so far and the error returned

VARIABLES
    \* ---- the judge node's lock around its Reader (Node.mu) ----
    nodeReaders,    \* handleCheck calls holding n.mu.RLock
    nodeWriter      \* the reload holding n.mu.Lock, or NoThread

VARIABLES
    \* ---- one call of a function of the scoring engine ----
    scPc,           \* "idle", "call" (arguments chosen) or "done"
    scIn,           \* the arguments
    scOut           \* the value returned

VARIABLES
    \* ---- two lines of one feed, parsed and converted for the store ----
    psLines,        \* the tokens of the two lines
    psEntries,      \* parseContent's entries, <<>> before it ran
    psDb,           \* storeEntries' database entries, <<>> before it ran
    psCompiled      \* the prefixes the compiler inserts, <<>> before it ran

VARIABLES
    \* ---- callers of Ingestor.Start and Ingestor.Stop ----
    irunning,       \* Ingestor.running
    imu,            \* Ingestor.mu: the caller holding it, or NoThread
    calls,          \* per caller: the call in progress and its position
    scheduled,      \* how many times the feeds were handed to cron
    ncalls          \* calls made so far

VARIABLES
    \* ---- the ingestor's configuration ----
    semCap          \* config.Ingestor.Concurrency, the capacity of sem

VARIABLES
    \* ---- runs of storeEntries for the same feed ----
    stJobs          \* per run: its position and the entry it built

VARIABLES
    \* ---- the API's handlers: performIPCheck and ReloadMMDB ----
    mmdbReader,     \* the package variable mmdbReader: the Reader in use
    closedReaders,  \* the Readers that Close has been called on
    apiCache,       \* the cache's entry for the address, NoAnswer when none
    chk,            \* per check: position, Reader fetched, result
    rh              \* the ReloadMMDB handler: position, old and new Reader

VARIABLES
    \* ---- parseContent run twice over the lines of one source ----
    lnFormat,       \* the format tag of the source
    lnLines,        \* the lines of the content, trimmed
    lnPc,           \* "idle", "loop" or "returned"
    lnI,            \* index of the line the loop is at
    lnEntries,      \* entries
    lnErr,          \* the error returned: "unset" until the return, then "nil"
    lnFirst         \* the entries the first run returned, NoRun before

orderVars == <<obsA, obsB, tabAB, tabBA, ordStep>>

lineVars == <<lnFormat, lnLines, lnPc, lnI, lnEntries, lnErr, lnFirst>>

apiVars == <<mmdbReader, closedReaders, apiCache, chk, rh>>

jobVars == <<stJobs>>

confVars == <<semCap>>

flagVars == <<irunning, imu, calls, scheduled, ncalls>>

parseVars == <<psLines, psEntries, psDb, psCompiled>>

scoreVars == <<scPc, scIn, scOut>>

nodeVars == <<nodeReaders, nodeWriter>>

lookupVars == <<laDbs, laPc, laResult>>

ingestVars ==
    <<mode, mainPc, startPc, toSpawn, cancelled, running, wg, sem, cronRunning,
      ticks, workers, lateStarts, totalEntries, totalStored, errors, okTotalStored,
      anyFailed, exitCode>>

fetchVars == <<maxRetries, attempt, resp, fetchErr, fetchPc, fetchLog, fetchRet>>

rangeVars == <<rngP, rngQ, rngOut>>

vars == <<readerVars, compileVars, upsertVars, orderVars, rangeVars, fetchVars, ingestVars, lookupVars, nodeVars, scoreVars, parseVars, flagVars, confVars, jobVars, apiVars, lineVars>>

\* what the actions of one subsystem leave unchanged
notReaderVars == <<compileVars, upsertVars, orderVars, rangeVars, fetchVars, ingestVars, lookupVars, nodeVars, scoreVars, parseVars, flagVars, confVars, jobVars, apiVars, lineVars>>
notCompileVars == <<readerVars, upsertVars, orderVars, rangeVars, fetchVars, ingestVars, lookupVars, nodeVars, scoreVars, parseVars, flagVars, confVars, jobVars, apiVars, lineVars>>
notUpsertVars == <<readerVars, whitelist, comp, fs, fileMeta, orderVars, rangeVars, fetchVars, ingestVars, lookupVars, nodeVars, scoreVars, parseVars, flagVars, confVars, jobVars, apiVars, lineVars>>
notOrderVars == <<readerVars, compileVars, upsertVars, rangeVars, fetchVars, ingestVars, lookupVars, nodeVars, scoreVars, parseVars, flagVars, confVars, jobVars, apiVars, lineVars>>
notRangeVars == <<readerVars, compileVars, upsertVars, orderVars, fetchVars, ingestVars, lookupVars, nodeVars, scoreVars, parseVars, flagVars, confVars, jobVars, apiVars, lineVars>>
notFetchVars == <<readerVars, compileVars, upsertVars, orderVars, rangeVars, ingestVars, lookupVars, nodeVars, scoreVars, parseVars, flagVars, confVars, jobVars, apiVars, lineVars>>
notIngestVars == <<readerVars, compileVars, upsertVars, orderVars, rangeVars, fetchVars, lookupVars, nodeVars, scoreVars, parseVars, flagVars, confVars, jobVars, apiVars, lineVars>>
notLookupVars == <<readerVars, compileVars, upsertVars, orderVars, rangeVars, fetchVars, ingestVars, nodeVars, scoreVars, parseVars, flagVars, confVars, jobVars, apiVars, lineVars>>
notNodeVars == <<readerVars, compileVars, upsertVars, orderVars, rangeVars, fetchVars, ingestVars, lookupVars, scoreVars, parseVars, flagVars, confVars, jobVars, apiVars, lineVars>>
notScoreVars == <<readerVars, compileVars, upsertVars, orderVars, rangeVars, fetchVars, ingestVars, lookupVars, nodeVars, parseVars, flagVars, confVars, jobVars, apiVars, lineVars>>
notParseVars == <<readerVars, compileVars, upsertVars, orderVars, rangeVars, fetchVars, ingestVars, lookupVars, nodeVars, scoreVars, flagVars, confVars, jobVars, apiVars, lineVars>>
notFlagVars == <<readerVars, compileVars, upsertVars, orderVars, rangeVars, fetchVars, ingestVars, lookupVars, nodeVars, scoreVars, parseVars, confVars, jobVars, apiVars, lineVars>>
notConfVars == <<readerVars, compileVars, upsertVars, orderVars, rangeVars, fetchVars, ingestVars, lookupVars, nodeVars, scoreVars, parseVars, flagVars, jobVars, apiVars, lineVars>>
notJobVars == <<readerVars, compileVars, upsertVars, orderVars, rangeVars, fetchVars, ingestVars, lookupVars, nodeVars, scoreVars, parseVars, flagVars, confVars, apiVars, lineVars>>
notApiVars == <<readerVars, compileVars, upsertVars, orderVars, rangeVars, fetchVars, ingestVars, lookupVars, nodeVars, scoreVars, parseVars, flagVars, confVars, jobVars, lineVars>>
notLineVars == <<readerVars, compileVars, upsertVars, orderVars, rangeVars, fetchVars, ingestVars, lookupVars, nodeVars, scoreVars, parseVars, flagVars, confVars, jobVars, apiVars>>

-----------------------------------------------------------------------------
(* Bounds of the model.                                                     *)

\* lookup threads calling LookupAll concurrently
NumLookups == 1
\* reload threads; each performs at most one Reload
NumReloads == 1
\* width of an address in bits (32 for IPv4 in the program)
AddrBits == 3
\* the clock runs from 0 to MaxTime ticks
MaxTime == 1
\* hours per clock tick (30 days)
TickHours == 720
\* rows the store may hold
MaxRows == 2
\* Compile calls in one behaviour
MaxCompiles == 2

\* the largest configured max_retries
MaxRetriesBound == 3

\* config.Ingestor.Concurrency
Concurrency == 1

\* sources per feed
NumSources == 2

\* batches per source (len(dbEntries) / batchSize, rounded up)
NumBatches == 2

\* entries per batch (batchSize)
BatchLen == 2

\* cron ticks that fire while the daemon runs
MaxTicks == 1

\* concurrent checks of the API
NumChecks == 2

\* lines of a source's content
NumLines == 2
MaxThreats == 2
NumSwappers == 2
NumCallers == 2
MaxCalls == 3

-----------------------------------------------------------------------------
(* Reader: handles, RWMutex, LookupAll and Reload.                          *)

NilDB == 0
NoThread == 0

LookupThreads == 1..NumLookups
ReloadThreads == 1..NumReloads

\* NewReader opened one handle per database; every Reload opens three more.
Handles == 1..(3 + 3 * NumReloads)

\* The three databases, in the order LookupAll queries them.
DBs == <<"rep", "geo", "asn">>

\* r.<db> as read under the lock
InstalledHandle(db) ==
    CASE db = "rep" -> reputationDB
      [] db = "geo" -> geoipDB
      [] db = "asn" -> asnDB

IdleLookup == [pc |-> "idle", db |-> 1, cur |-> NilDB,
               got |-> <<NilDB, NilDB, NilDB>>, usedClosed |-> FALSE]

IdleReload == [pc |-> "idle", newRep |-> NilDB, newGeo |-> NilDB, newAsn |-> NilDB,
               oldRep |-> NilDB, oldGeo |-> NilDB, oldAsn |-> NilDB, err |-> FALSE]

\* NewReader with the three paths configured and every Open succeeding.
InitReader ==
    /\ reputationDB = 1
    /\ geoipDB = 2
    /\ asnDB = 3
    /\ muReaders = {}
    /\ muWriter = NoThread
    /\ hstate = [h \in Handles |-> IF h <= 3 THEN "open" ELSE "unopened"]
    /\ lk = [t \in LookupThreads |-> IdleLookup]
    /\ rl = [t \in ReloadThreads |-> IdleReload]
    /\ installed = {<<1, 2, 3>>}

\* sync.RWMutex: RLock succeeds when no writer holds the lock.
CanRLock == muWriter = NoThread

\* a lock that lets a writer in while readers hold it
CanLockIgnoringReaders == muWriter = NoThread

\* sync.RWMutex: Lock succeeds when nobody holds the lock.
CanLock == muWriter = NoThread /\ muReaders = {}

\* LookupAll begins: result := &IPCheckResult{...}; the first sub-lookup follows.
LookupAllStart(t) ==
    /\ lk[t].pc = "idle"
    /\ lk' = [lk EXCEPT ![t] = [IdleLookup EXCEPT !.pc = "rlock"]]
    /\ UNCHANGED <<reputationDB, geoipDB, asnDB, muReaders, muWriter, hstate,
                   rl, installed>>
    /\ UNCHANGED notReaderVars

\* r.mu.RLock() at the head of LookupReputation / LookupGeoIP / LookupASN
LookupRLock(t) ==
    /\ lk[t].pc = "rlock"
    /\ CanRLock
    /\ muReaders' = muReaders \cup {t}
    /\ lk' = [lk EXCEPT ![t].pc = "load"]
    /\ UNCHANGED <<reputationDB, geoipDB, asnDB, muWriter, hstate, rl, installed>>
    /\ UNCHANGED notReaderVars

\* if r.<db> == nil { return nil, ... }: the handle pointer is read
LookupLoad(t) ==
    /\ lk[t].pc = "load"
    /\ LET h == InstalledHandle(DBs[lk[t].db]) IN
       lk' = [lk EXCEPT ![t].cur = h,
                        ![t].pc = IF h = NilDB THEN "runlock" ELSE "use"]
    /\ UNCHANGED <<reputationDB, geoipDB, asnDB, muReaders, muWriter, hstate,
                   rl, installed>>
    /\ UNCHANGED notReaderVars

\* r.<db>.Lookup(netIP, &record): the mapped file behind the handle is read
LookupUse(t) ==
    /\ lk[t].pc = "use"
    /\ lk' = [lk EXCEPT ![t].got = [@ EXCEPT ![lk[t].db] = lk[t].cur],
                        ![t].usedClosed = @ \/ hstate[lk[t].cur] # "open",
                        ![t].pc = "runlock"]
    /\ UNCHANGED <<reputationDB, geoipDB, asnDB, muReaders, muWriter, hstate,
                   rl, installed>>
    /\ UNCHANGED notReaderVars

\* defer r.mu.RUnlock(); LookupAll goes on to the next database or returns
LookupRUnlock(t) ==
    /\ lk[t].pc = "runlock"
    /\ muReaders' = muReaders \ {t}
    /\ lk' = [lk EXCEPT ![t].cur = NilDB,
                        ![t].db = IF lk[t].db < 3 THEN lk[t].db + 1 ELSE 3,
                        ![t].pc = IF lk[t].db < 3 THEN "rlock" ELSE "done"]
    /\ UNCHANGED <<reputationDB, geoipDB, asnDB, muWriter, hstate, rl, installed>>
    /\ UNCHANGED notReaderVars

\* the caller consumes the result; the thread may look up again
LookupAllReturn(t) ==
    /\ lk[t].pc = "done"
    /\ lk' = [lk EXCEPT ![t] = IdleLookup]
    /\ UNCHANGED <<reputationDB, geoipDB, asnDB, muReaders, muWriter, hstate,
                   rl, installed>>
    /\ UNCHANGED notReaderVars

\* The handles the Open calls of reload thread t return (fresh ones).
NewRepHandle(t) == 3 * t + 1
NewGeoHandle(t) == 3 * t + 2
NewAsnHandle(t) == 3 * t + 3

\* newRepDB, err := maxminddb.Open(reputationPath); an error returns at once
ReloadOpenRep(t) ==
    /\ rl[t].pc = "idle"
    /\ \/ /\ hstate' = [hstate EXCEPT ![NewRepHandle(t)] = "open"]
          /\ rl' = [rl EXCEPT ![t].newRep = NewRepHandle(t), ![t].pc = "openOpt"]
       \/ /\ rl' = [rl EXCEPT ![t].err = TRUE, ![t].pc = "done"]
          /\ UNCHANGED hstate
    /\ UNCHANGED <<reputationDB, geoipDB, asnDB, muReaders, muWriter, lk, installed>>
    /\ UNCHANGED notReaderVars

\* newGeoipDB, _ = maxminddb.Open(geoipPath); newAsnDB, _ = maxminddb.Open(asnPath):
\* either may fail, the error is dropped and the variable stays nil
ReloadOpenOptional(t) ==
    /\ rl[t].pc = "openOpt"
    /\ \E geoOk \in BOOLEAN, asnOk \in BOOLEAN :
          /\ hstate' = [h \in DOMAIN hstate |->
                          IF \/ (geoOk /\ h = NewGeoHandle(t))
                             \/ (asnOk /\ h = NewAsnHandle(t))
                          THEN "open" ELSE hstate[h]]
          /\ rl' = [rl EXCEPT ![t].newGeo = IF geoOk THEN NewGeoHandle(t) ELSE NilDB,
                              ![t].newAsn = IF asnOk THEN NewAsnHandle(t) ELSE NilDB,
                              ![t].pc = "lock"]
    /\ UNCHANGED <<reputationDB, geoipDB, asnDB, muReaders, muWriter, lk, installed>>
    /\ UNCHANGED notReaderVars

\* r.mu.Lock()
ReloadLock(t) ==
    /\ rl[t].pc = "lock"
    /\ CanLock
    /\ muWriter' = t
    /\ rl' = [rl EXCEPT ![t].pc = "swap"]
    /\ UNCHANGED <<reputationDB, geoipDB, asnDB, muReaders, hstate, lk, installed>>
    /\ UNCHANGED notReaderVars

\* old* := r.*; r.* = new*  (the three assignments, under the write lock)
ReloadSwap(t) ==
    /\ rl[t].pc = "swap"
    /\ rl' = [rl EXCEPT ![t].oldRep = reputationDB, ![t].oldGeo = geoipDB,
                        ![t].oldAsn = asnDB, ![t].pc = "unlock"]
    /\ reputationDB' = rl[t].newRep
    /\ geoipDB' = rl[t].newGeo
    /\ asnDB' = rl[t].newAsn
    /\ installed' = installed \cup {<<rl[t].newRep, rl[t].newGeo, rl[t].newAsn>>}
    /\ UNCHANGED <<muReaders, muWriter, hstate, lk>>
    /\ UNCHANGED notReaderVars

\* r.mu.Unlock()
ReloadUnlock(t) ==
    /\ rl[t].pc = "unlock"
    /\ muWriter' = NoThread
    /\ rl' = [rl EXCEPT ![t].pc = "close"]
    /\ UNCHANGED <<reputationDB, geoipDB, asnDB, muReaders, hstate, lk, installed>>
    /\ UNCHANGED notReaderVars

\* A Reload that returns without closing what it replaced.
ReloadSkipClose(t) ==
    /\ rl[t].pc = "close"
    /\ rl' = [rl EXCEPT ![t].pc = "done"]
    /\ UNCHANGED <<reputationDB, geoipDB, asnDB, muReaders, muWriter, hstate, lk,
                   installed>>
    /\ UNCHANGED notReaderVars

\* if oldRepDB != nil { oldRepDB.Close() } ... oldGeoipDB ... oldAsnDB; return nil
ReloadCloseOld(t) ==
    /\ rl[t].pc = "close"
    /\ hstate' = [h \in DOMAIN hstate |->
                    IF h # NilDB /\ h \in {rl[t].oldRep, rl[t].oldGeo, rl[t].oldAsn}
                    THEN "closed" ELSE hstate[h]]
    /\ rl' = [rl EXCEPT ![t].pc = "done"]
    /\ UNCHANGED <<reputationDB, geoipDB, asnDB, muReaders, muWriter, lk, installed>>
    /\ UNCHANGED notReaderVars

ReaderNext ==
    \/ \E t \in LookupThreads :
          \/ LookupAllStart(t)
          \/ LookupRLock(t)
          \/ LookupLoad(t)
          \/ LookupUse(t)
          \/ LookupRUnlock(t)
          \/ LookupAllReturn(t)
    \/ \E t \in ReloadThreads :
          \/ ReloadOpenRep(t)
          \/ ReloadOpenOptional(t)
          \/ ReloadLock(t)
          \/ ReloadSwap(t)
          \/ ReloadUnlock(t)
          \/ ReloadCloseOld(t)

\* Several callers of Reader.Reload at once, and no lookups.
Swappers == 1..NumSwappers

InitSwappers ==
    /\ reputationDB = 1
    /\ geoipDB = 2
    /\ asnDB = 3
    /\ muReaders = {}
    /\ muWriter = NoThread
    /\ hstate = [h \in 1..(3 + 3 * NumSwappers) |->
                    IF h <= 3 THEN "open" ELSE "unopened"]
    /\ lk = [t \in LookupThreads |-> IdleLookup]
    /\ rl = [t \in Swappers |-> IdleReload]
    /\ installed = {<<1, 2, 3>>}

ReloadNext ==
    \E t \in Swappers :
        \/ ReloadOpenRep(t)
        \/ ReloadOpenOptional(t)
        \/ ReloadLock(t)
        \/ ReloadSwap(t)
        \/ ReloadUnlock(t)
        \/ ReloadCloseOld(t)

-----------------------------------------------------------------------------
(* Addresses and prefixes (net/netip), scaled down to AddrBits bits.        *)

RECURSIVE Pow2(_)
Pow2(n) == IF n = 0 THEN 1 ELSE 2 * Pow2(n - 1)

Addrs == 0..(Pow2(AddrBits) - 1)

\* netip.Prefix: an address and a bit length
Prefix(a, b) == [addr |-> a, bits |-> b]

\* netip.Prefix.Contains
PrefixContains(p, a) ==
    a \div Pow2(AddrBits - p.bits) = p.addr \div Pow2(AddrBits - p.bits)

\* IPv6 addresses: the address space once more, above the IPv4 addresses
Addrs6 == Pow2(AddrBits)..(2 * Pow2(AddrBits) - 1)

\* netip.Addr.Is4
Is4(a) == a < Pow2(AddrBits)

\* netip.Prefix.Masked
Masked(p) ==
    LET size == Pow2(AddrBits - p.bits)
    IN  Prefix((p.addr \div size) * size, p.bits)

\* IPRangeFromPrefix.  IPv4: startIP &^ mask, startIP | mask.  IPv6: start
\* is the masked address and end = start.
IPRangeFromPrefix(p) ==
    LET size == Pow2(AddrBits - p.bits)
        startIP == (p.addr \div size) * size
    IN  IF Is4(p.addr) THEN <<startIP, startIP + size - 1>>
        ELSE <<Masked(p).addr, Masked(p).addr>>

\* IPRangeFromAddr
IPRangeFromAddr(a) == <<a, a>>

-----------------------------------------------------------------------------
(* Scoring engine (package scoring).  Confidence and decay are held in      *)
(* hundredths, the running total as an exact fraction.                      *)

NoTime == -1
NoASN == [ASNType |-> "none"]

\* DefaultConfig().ThreatWeights, and getThreatWeight's default of 50
getThreatWeight(threatType) ==
    CASE threatType = "tor" -> 70
      [] threatType = "vpn" -> 45
      [] threatType = "proxy" -> 50
      [] threatType = "datacenter" -> 40
      [] threatType = "botnet_c2" -> 95
      [] threatType = "malware" -> 90
      [] threatType = "spam" -> 60
      [] threatType = "hijacked" -> 95
      [] threatType = "attack" -> 75
      [] threatType = "suspicious" -> 55
      [] threatType = "malicious" -> 85
      [] OTHER -> 50

\* DefaultConfig().ASNTypeModifiers, and getASNModifier's default of 0
getASNModifier(asnType) ==
    CASE asnType = "datacenter" -> 15
      [] asnType = "hosting" -> 15
      [] asnType = "isp" -> 0
      [] asnType = "business" -> -10
      [] asnType = "education" -> -20
      [] asnType = "government" -> -25
      [] OTHER -> 0

\* DefaultConfig(): MaxAge = 180 days, in hours
MaxAgeHours == 4320
MinScore == 0
MaxScore == 100
\* HighConfidenceThreshold 0.9, in hundredths
HighConfidenceThreshold == 90
HighConfidenceBonus == 5
\* fixed-point scale of the exponential series
ExpScale == 10000
\* terms of the exponential series
ExpTerms == 12
\* DecayLambda = 0.01 per day: lambda * days = hours / HoursPerLambda
HoursPerLambda == 2400

\* e^(hours / HoursPerLambda) * ExpScale, by its power series
RECURSIVE ExpSeries(_, _, _)
ExpSeries(hours, k, term) ==
    IF k > ExpTerms THEN 0
    ELSE term + ExpSeries(hours, k + 1, (term * hours) \div (HoursPerLambda * (k + 1)))

\* math.Exp(-DecayLambda * days), in hundredths (rounded to the nearest)
ExpDecay(hours) ==
    LET ex == ExpSeries(hours, 0, ExpScale)
    IN  (100 * ExpScale + ex \div 2) \div ex

\* Scorer.calculateDecay, in hundredths; times are in hours
calculateDecay(lastSeen, nowHours) ==
    IF lastSeen = NoTime THEN 50
    ELSE LET age == nowHours - lastSeen IN
         IF age > MaxAgeHours THEN 10
         ELSE IF age < 24 THEN 100
         ELSE IF ExpDecay(age) < 10 THEN 10 ELSE ExpDecay(age)

\* a conversion to int that drops the fraction instead of rounding
Truncate(n, d) ==
    IF n >= 0 THEN n \div d ELSE -((-n) \div d)

\* math.Round: half away from zero, of the fraction n / d (d > 0)
Round(n, d) ==
    IF n >= 0 THEN (2 * n + d) \div (2 * d) ELSE -((2 * (-n) + d) \div (2 * d))

\* The sum of weight * confidence * decay over the threats, in 1/10000.
RECURSIVE Contributions(_, _)
Contributions(threats, nowHours) ==
    IF threats = <<>> THEN 0
    ELSE LET t == Head(threats)
             confidence == IF t.Confidence <= 0 THEN 50 ELSE t.Confidence
         IN  getThreatWeight(t.ThreatType) * confidence
                 * calculateDecay(t.LastSeen, nowHours)
             + Contributions(Tail(threats), nowHours)

\* the rounded sum of the contributions, without bounds
ScoreSum(threats, asnInfo, nowHours) ==
    Round(Contributions(threats, nowHours), 10000)

\* Scorer.CalculateScore with the default configuration.  The multi-threat
\* multiplier 1.1 is 11/10 and the datacenter multiplier 1.15 is 23/20.
CalculateScore(threats, asnInfo, nowHours) ==
    IF Len(threats) = 0 THEN MinScore
    ELSE
      LET threatTypes == {threats[i].ThreatType : i \in 1..Len(threats)}
          \* in 1/100000
          afterMulti == Contributions(threats, nowHours)
                          * (IF Cardinality(threatTypes) > 1 THEN 11 ELSE 10)
          afterModifier == IF asnInfo = NoASN THEN afterMulti
                           ELSE afterMulti + getASNModifier(asnInfo.ASNType) * 100000
          \* in 1/2000000
          afterDatacenter ==
              IF asnInfo # NoASN /\ asnInfo.ASNType \in {"datacenter", "hosting"}
              THEN afterModifier * 23 ELSE afterModifier * 20
          highConfidence ==
              \E i \in 1..Len(threats) : threats[i].Confidence >= HighConfidenceThreshold
          totalScore == IF highConfidence
                        THEN afterDatacenter + HighConfidenceBonus * 2000000
                        ELSE afterDatacenter
          score == Round(totalScore, 2000000)
      IN  IF score < MinScore THEN MinScore
          ELSE IF score > MaxScore THEN MaxScore ELSE score

\* a classification whose thresholds are exclusive
ClassifyRiskStrict(score) ==
    IF score > 85 THEN "critical"
    ELSE IF score > 70 THEN "high"
    ELSE IF score > 50 THEN "medium"
    ELSE IF score > 25 THEN "low"
    ELSE "clean"

\* Scorer.ClassifyRisk
ClassifyRisk(score) ==
    IF score >= 85 THEN "critical"
    ELSE IF score >= 70 THEN "high"
    ELSE IF score >= 50 THEN "medium"
    ELSE IF score >= 25 THEN "low"
    ELSE "clean"

-----------------------------------------------------------------------------
(* Calls of the scoring engine on chosen arguments.                         *)

NoScore == "none"

\* models.Threat values: a weighted type, a type missing from ThreatWeights;
\* confidence unset, below, at the high-confidence threshold; last seen
\* unknown, long ago, some 100 days ago, just now
ThreatTypes == {"vpn", "botnet_c2", "unlisted"}
Confidences == {0, 50, 90}
ScoreNow == 4400
LastSeens == {NoTime, 0, 2000, ScoreNow}
Threats == [ThreatType : ThreatTypes, Confidence : Confidences, LastSeen : LastSeens]

RECURSIVE ThreatLists(_)
ThreatLists(n) ==
    IF n = 0 THEN {<<>>}
    ELSE ThreatLists(n - 1)
         \cup {Append(l, t) : l \in {k \in ThreatLists(n - 1) : Len(k) = n - 1},
                              t \in Threats}

\* *models.ASNInfo: nil, or one of some type
AsnInfos == {NoASN} \cup [ASNType : {"datacenter", "business", "unlisted"}]

\* the score range ClassifyRisk is called on, and beyond it
ClassifyScores == -10..110

\* calculateDecay's arguments, in hours: around the 24-hour and MaxAge edges
DecayNows == {100, ScoreNow}
DecayLastSeens == {NoTime} \cup 0..90

IdleScore ==
    /\ scPc = "idle"
    /\ scIn = <<>>
    /\ scOut = NoScore

DrawScore ==
    /\ scPc = "call"
    /\ scIn \in [threats : ThreatLists(MaxThreats), asnInfo : AsnInfos, now : {ScoreNow}]
    /\ scOut = NoScore

DrawDecay ==
    /\ scPc = "call"
    /\ scIn \in [lastSeen : DecayLastSeens, now : DecayNows]
    /\ scOut = NoScore

DrawClassify ==
    /\ scPc = "call"
    /\ scIn \in [score : ClassifyScores]
    /\ scOut = NoScore

\* score := s.CalculateScore(threats, asnInfo, now)
ApplyCalculateScore ==
    /\ scPc = "call"
    /\ scOut' = CalculateScore(scIn.threats, scIn.asnInfo, scIn.now)
    /\ scPc' = "done"
    /\ UNCHANGED scIn
    /\ UNCHANGED notScoreVars

\* decay := s.calculateDecay(threat.LastSeen, now)
ApplyCalculateDecay ==
    /\ scPc = "call"
    /\ scOut' = calculateDecay(scIn.lastSeen, scIn.now)
    /\ scPc' = "done"
    /\ UNCHANGED scIn
    /\ UNCHANGED notScoreVars

\* RiskLevel: s.ClassifyRisk(score)
ApplyClassifyRisk ==
    /\ scPc = "call"
    /\ scOut' = ClassifyRisk(scIn.score)
    /\ scPc' = "done"
    /\ UNCHANGED scIn
    /\ UNCHANGED notScoreVars

-----------------------------------------------------------------------------
(* The reputation store (table ip_reputation) and the whitelist table.      *)

\* a NULL cidr column
NoCidr == Prefix(-1, -1)

\* The feed catalogue: each feed's threat type, default confidence (in
\* hundredths) and weight, which parseContent copies into every entry.
Feeds == {"spamhaus_drop", "firehol_level1"}
FeedThreatType(f) == IF f = "spamhaus_drop" THEN "hijacked" ELSE "attack"
FeedConfidence(f) == IF f = "spamhaus_drop" THEN 95 ELSE 85
FeedWeight(f) == IF f = "spamhaus_drop" THEN 90 ELSE 70

\* What the feeds publish: two nested prefixes, a single address inside
\* both, and a prefix inside a reserved network.
FeedTargets ==
    { [isPrefix |-> TRUE, Prefix |-> Prefix(0, 1), IP |-> -1],
      [isPrefix |-> TRUE, Prefix |-> Prefix(2, 2), IP |-> -1],
      [isPrefix |-> FALSE, Prefix |-> NoCidr, IP |-> 3],
      [isPrefix |-> TRUE, Prefix |-> Prefix(6, 2), IP |-> -1] }

\* parseContent: the models.FeedEntry of one valid line of feed f
FeedEntry(f, target) ==
    [Source |-> f, ThreatType |-> FeedThreatType(f), Confidence |-> FeedConfidence(f),
     Weight |-> FeedWeight(f), isPrefix |-> target.isPrefix,
     Prefix |-> target.Prefix, IP |-> target.IP]

\* storeEntries: the database.IPReputationEntry built from a FeedEntry
DbEntry(entry, t) ==
    LET range == IF entry.isPrefix THEN IPRangeFromPrefix(entry.Prefix)
                 ELSE IPRangeFromAddr(entry.IP)
    IN  [ip_start |-> range[1], ip_end |-> range[2],
         cidr |-> IF entry.isPrefix THEN entry.Prefix ELSE NoCidr,
         source |-> entry.Source, threat_type |-> entry.ThreatType,
         confidence |-> entry.Confidence, weight |-> entry.Weight,
         first_seen |-> t, last_seen |-> t, expires_at |-> NoTime]

\* the unique index idx_ip_reputation_unique
SameKey(r, e) ==
    r.ip_start = e.ip_start /\ r.ip_end = e.ip_end /\ r.source = e.source

Max(a, b) == IF a >= b THEN a ELSE b

\* an update that overwrites confidence and weight instead of taking GREATEST
ConflictUpdateLastWins(r, e) ==
    [r EXCEPT !.confidence = e.confidence, !.weight = e.weight,
              !.last_seen = e.last_seen]

\* ON CONFLICT (ip_start, ip_end, source) DO UPDATE SET confidence = GREATEST(..),
\* weight = GREATEST(..), last_seen = EXCLUDED.last_seen
ConflictUpdate(r, e) ==
    [r EXCEPT !.confidence = Max(r.confidence, e.confidence),
              !.weight = Max(r.weight, e.weight),
              !.last_seen = e.last_seen]

\* an INSERT without the ON CONFLICT clause and without the unique index
UpsertWithoutConflict(table, e) == table \cup {e}

\* INSERT INTO ip_reputation ... ON CONFLICT ... : the table after the statement
Upsert(table, e) ==
    IF \E r \in table : SameKey(r, e)
    THEN {IF SameKey(r, e) THEN ConflictUpdate(r, e) ELSE r : r \in table}
    ELSE table \cup {e}

\* WHERE (expires_at IS NULL OR expires_at > NOW())
IsActive(r, t) == r.expires_at = NoTime \/ r.expires_at > t

\* PostgresDB.IsWhitelisted
IsWhitelisted(table, ip, t) ==
    \E w \in table :
        /\ ip >= w.ip_start /\ ip <= w.ip_end
        /\ (w.permanent \/ w.expires_at = NoTime \/ w.expires_at > t)

-----------------------------------------------------------------------------
(* The MMDB writer (internal/mmdb/writer.go) and the tree of mmdbwriter.    *)

\* threatTypeToFlags: the flags set for a threat type
threatTypeToFlags(threatType) ==
    CASE threatType = "tor" -> {"is_tor"}
      [] threatType = "vpn" -> {"is_vpn"}
      [] threatType = "proxy" -> {"is_proxy"}
      [] threatType = "datacenter" -> {"is_datacenter"}
      [] threatType = "botnet_c2" -> {"is_botnet"}
      [] threatType = "malware" -> {"is_malware"}
      [] threatType = "spam" -> {"is_spam"}
      [] threatType = "attack" -> {"is_attacker"}
      [] OTHER -> {}

\* classifyRisk of the writer
classifyRisk(score) ==
    IF score >= 85 THEN "critical"
    ELSE IF score >= 70 THEN "high"
    ELSE IF score >= 50 THEN "medium"
    ELSE IF score >= 25 THEN "low"
    ELSE "clean"

\* models.GetRiskLevel
GetRiskLevel(score) ==
    IF score >= 85 THEN "critical"
    ELSE IF score >= 70 THEN "high"
    ELSE IF score >= 50 THEN "medium"
    ELSE IF score >= 25 THEN "low"
    ELSE "safe"

\* the three classifiers of the repository called on one score
ApplyRiskLevels ==
    /\ scPc = "call"
    /\ scOut' = <<ClassifyRisk(scIn.score), classifyRisk(scIn.score),
                  GetRiskLevel(scIn.score)>>
    /\ scPc' = "done"
    /\ UNCHANGED scIn
    /\ UNCHANGED notScoreVars

\* the zero value of ReputationRecord, which a lookup miss leaves untouched
ZeroRecord == [RiskScore |-> 0, RiskLevel |-> "", ThreatType |-> "", Confidence |-> 0,
               Sources |-> <<>>, LastUpdate |-> 0, Flags |-> {}]

\* a tree cell without data
NoData == [net |-> NoCidr, rec |-> ZeroRecord]

\* mmdbwriter.New: a tree without data
EmptyTree == [a \in Addrs |-> NoData]

\* Networks mmdbwriter reserves when IncludeReservedNetworks is false (the
\* scaled-down counterpart of 10.0.0.0/8 and the like).
ReservedNetworks == {Prefix(6, 2)}

InReserved(a) == \E r \in ReservedNetworks : PrefixContains(r, a)

\* tree.Insert with Inserter: inserter.ReplaceWith.  The insert fails when
\* the network lies in a reserved network; otherwise every address of the
\* network takes the new record, whatever record it had, except the
\* addresses of reserved networks, which are skipped.
TreeInsert(tree, p, record) ==
    [a \in Addrs |->
        IF PrefixContains(p, a) /\ ~InReserved(a)
        THEN [net |-> p, rec |-> record] ELSE tree[a]]

\* the error tree.Insert returns
TreeInsertFails(p) ==
    \E r \in ReservedNetworks : r.bits <= p.bits /\ PrefixContains(r, p.addr)

\* fetchReputationData: COALESCE(cidr::text, ip_start::text || '/32'), which
\* CompileFromIPReputations parses back with netip.ParsePrefix
IPRange(r) == IF r.cidr # NoCidr THEN r.cidr ELSE Prefix(r.ip_start, AddrBits)

\* fetchReputationData: the models.IPReputation scanned from a row
Reputation(r) ==
    [IPRange |-> IPRange(r), Source |-> r.source, ThreatType |-> r.threat_type,
     Confidence |-> r.confidence, Weight |-> r.weight, FirstSeen |-> r.first_seen,
     LastSeen |-> r.last_seen, RiskScore |-> 0]

\* every sequence that lists the elements of S once
RECURSIVE Perms(_)
Perms(S) ==
    IF S = {} THEN {<<>>}
    ELSE UNION {{<<x>> \o q : q \in Perms(S \ {x})} : x \in S}

\* ORDER BY last_seen DESC: the orders the query may return the rows in
OrderedByLastSeenDesc(rows) ==
    {q \in Perms(rows) :
        \A i \in 1..(Len(q) - 1) : q[i].last_seen >= q[i + 1].last_seen}

\* Compile's loop: the score of each row from a one-element threat list
ScoreOne(rep, nowHours) ==
    CalculateScore(<<[ThreatType |-> rep.ThreatType, Source |-> rep.Source,
                      Confidence |-> rep.Confidence,
                      LastSeen |-> IF rep.LastSeen = NoTime THEN NoTime
                                   ELSE rep.LastSeen * TickHours,
                      Weight |-> rep.Weight]>>, NoASN, nowHours)

\* CompileFromIPReputations: the ReputationEntry of one reputation, as the
\* MMDB record entryToMMDBRecord makes of it
EntryRecord(rep) ==
    [RiskScore |-> rep.RiskScore, RiskLevel |-> classifyRisk(rep.RiskScore),
     ThreatType |-> rep.ThreatType, Confidence |-> rep.Confidence,
     Sources |-> <<rep.Source>>, LastUpdate |-> rep.LastSeen,
     Flags |-> threatTypeToFlags(rep.ThreatType)]

\* CompileToMMDB's loop: insert the entries in order; a failed insert is
\* counted and skipped
RECURSIVE InsertEntries(_, _)
InsertEntries(tree, reps) ==
    IF reps = <<>> THEN tree
    ELSE LET rep == Head(reps)
             next == IF TreeInsertFails(rep.IPRange) THEN tree
                     ELSE TreeInsert(tree, rep.IPRange, EntryRecord(rep))
         IN  InsertEntries(next, Tail(reps))

\* Compile's scoring loop followed by CompileFromIPReputations up to the
\* finished tree
BuildTree(reps, nowHours) ==
    InsertEntries(EmptyTree,
                  [i \in 1..Len(reps) |->
                      [reps[i] EXCEPT !.RiskScore = ScoreOne(reps[i], nowHours)]])

-----------------------------------------------------------------------------
(* The reader's view of a compiled file (internal/mmdb/reader.go).          *)

\* what a path holds: nothing, a file being written, or a complete database
NoFile == [kind |-> "none", tree |-> EmptyTree]
PartialFile == [kind |-> "partial", tree |-> EmptyTree]
DbFile(tree) == [kind |-> "db", tree |-> tree]

\* Reader.LookupReputation on a loaded tree: found is FALSE for (nil, nil)
LookupReputation(tree, ip) ==
    LET record == tree[ip].rec
    IN  IF record.RiskScore = 0 /\ record.ThreatType = ""
        THEN [found |-> FALSE, rec |-> ZeroRecord]
        ELSE [found |-> TRUE, rec |-> record]

\* Reader.LookupAll, reputation part
LookupAll(tree, ip) ==
    LET rep == LookupReputation(tree, ip)
    IN  IF rep.found
        THEN [Score |-> rep.rec.RiskScore, RiskLevel |-> rep.rec.RiskLevel,
              Flags |-> rep.rec.Flags,
              ThreatTypes |-> IF rep.rec.ThreatType # ""
                              THEN <<rep.rec.ThreatType>> \o rep.rec.Sources
                              ELSE rep.rec.Sources]
        ELSE [Score |-> 0, RiskLevel |-> "clean", Flags |-> {}, ThreatTypes |-> <<>>]

\* performIPCheck on a Reader that has loaded file: the LookupAll result, or
\* the clean fallback when there is no database
performIPCheck(file, ip) ==
    IF file.kind = "db" THEN LookupAll(file.tree, ip)
    ELSE [Score |-> 0, RiskLevel |-> "clean", Flags |-> {}, ThreatTypes |-> <<>>]

-----------------------------------------------------------------------------
(* Store upserts, the whitelist, the clock and Compiler.Compile.            *)

NoMeta == [snap |-> {}, cnow |-> NoTime]

IdleCompile == [pc |-> "idle", reputations |-> <<>>, snap |-> {}, cnow |-> NoTime,
                tree |-> EmptyTree, result |-> "none", fileAtStart |-> NoFile,
                wl |-> {}, n |-> 0]

\* writing straight to the output path
outputPathInPlace == "out"

\* tempPath := outputPath + ".tmp"
tempPath == "tmp"

InitStore ==
    /\ now = 0
    /\ store = {}
    /\ whitelist = {}

InitCompile ==
    /\ comp = IdleCompile
    /\ fs = [out |-> NoFile, tmp |-> NoFile]
    /\ fileMeta = NoMeta

\* the clock advances
Tick ==
    /\ now < MaxTime
    /\ now' = now + 1
    /\ UNCHANGED <<store, whitelist, comp, fs, fileMeta>>
    /\ UNCHANGED notCompileVars

\* the store has room for the row of e
HasRoom(e) == (\E r \in store : SameKey(r, e)) \/ Cardinality(store) < MaxRows

\* Ingestor.storeEntries for one parsed entry: InsertReputationBatch, whose
\* statement leaves expires_at to its default NULL
StoreEntries(f, target) ==
    LET e == DbEntry(FeedEntry(f, target), now) IN
    /\ HasRoom(e)
    /\ store' = Upsert(store, e)
    /\ UNCHANGED <<now, whitelist, comp, fs, fileMeta>>
    /\ UNCHANGED notCompileVars

\* PostgresDB.InsertReputation of an entry that carries an ExpiresAt
InsertReputation(f, target) ==
    LET e == [DbEntry(FeedEntry(f, target), now) EXCEPT !.expires_at = now + 1] IN
    /\ now < MaxTime
    /\ HasRoom(e)
    /\ store' = Upsert(store, e)
    /\ UNCHANGED <<now, whitelist, comp, fs, fileMeta>>
    /\ UNCHANGED notCompileVars

\* PostgresDB.CleanupExpired: DELETE FROM ip_reputation WHERE expires_at IS
\* NOT NULL AND expires_at < NOW()
CleanupExpired ==
    /\ store' = {r \in store : ~(r.expires_at # NoTime /\ r.expires_at < now)}
    /\ UNCHANGED <<now, whitelist, comp, fs, fileMeta>>
    /\ UNCHANGED notCompileVars

\* a feed tick stores an entry; the feeds list their prefixes until MaxTime
\* and no longer after it
IngestListed(f, target) ==
    /\ now < MaxTime
    /\ StoreEntries(f, target)

\* the store with its periodic sweep: feed ticks, rows inserted with an
\* expiry, the clock, CleanupExpired
SweepNext ==
    \/ Tick
    \/ \E f \in Feeds, target \in FeedTargets : IngestListed(f, target)
    \/ \E f \in Feeds, target \in FeedTargets : InsertReputation(f, target)
    \/ CleanupExpired

\* a permanent row is added to table whitelist
AddWhitelist(p) ==
    LET range == IPRangeFromPrefix(p) IN
    /\ whitelist' = whitelist \cup
          {[ip_start |-> range[1], ip_end |-> range[2], permanent |-> TRUE,
            expires_at |-> NoTime]}
    /\ whitelist' # whitelist
    /\ UNCHANGED <<now, store, comp, fs, fileMeta>>
    /\ UNCHANGED notCompileVars

\* Compile: c.mu.Lock(); fetchReputationData.  A query error returns the
\* error; an empty result returns nil at once ("No reputation data to
\* compile"); otherwise the rows come in an order last_seen DESC allows.
CompileFetch ==
    /\ comp.pc = "idle"
    /\ comp.n < MaxCompiles
    /\ LET active == {r \in store : IsActive(r, now)}
           begun == [comp EXCEPT !.n = comp.n + 1, !.fileAtStart = fs.out,
                                 !.wl = whitelist]
       IN  \/ comp' = [begun EXCEPT !.pc = "returned", !.result = "error"]
           \/ /\ active = {}
              /\ comp' = [begun EXCEPT !.pc = "returned", !.result = "ok"]
           \/ /\ active # {}
              /\ \E q \in OrderedByLastSeenDesc(active) :
                    comp' = [begun EXCEPT !.pc = "fetched", !.snap = active,
                                          !.reputations =
                                              [i \in 1..Len(q) |-> Reputation(q[i])]]
    /\ UNCHANGED <<now, store, whitelist, fs, fileMeta>>
    /\ UNCHANGED notCompileVars

\* Compile: now := time.Now(); the scoring loop; CompileFromIPReputations and
\* CompileToMMDB up to the finished tree.  os.MkdirAll may fail.
CompileBuild ==
    /\ comp.pc = "fetched"
    /\ \/ comp' = [comp EXCEPT !.pc = "built", !.cnow = now,
                               !.tree = BuildTree(comp.reputations, now * TickHours)]
       \/ comp' = [comp EXCEPT !.pc = "returned", !.result = "error"]
    /\ UNCHANGED <<now, store, whitelist, fs, fileMeta>>
    /\ UNCHANGED notCompileVars

\* CompileToMMDB: file, err := os.Create(tempPath), which truncates
CompileCreate ==
    /\ comp.pc = "built"
    /\ \/ /\ fs' = [fs EXCEPT ![tempPath] = PartialFile]
          /\ comp' = [comp EXCEPT !.pc = "created"]
       \/ /\ comp' = [comp EXCEPT !.pc = "returned", !.result = "error"]
          /\ UNCHANGED fs
    /\ UNCHANGED <<now, store, whitelist, fileMeta>>
    /\ UNCHANGED notCompileVars

\* CompileToMMDB: tree.WriteTo(file); file.Close(); on an error
\* os.Remove(tempPath) and return
CompileWrite ==
    /\ comp.pc = "created"
    /\ \/ /\ fs' = [fs EXCEPT ![tempPath] = DbFile(comp.tree)]
          /\ comp' = [comp EXCEPT !.pc = "written"]
       \/ /\ fs' = [fs EXCEPT ![tempPath] = NoFile]
          /\ comp' = [comp EXCEPT !.pc = "returned", !.result = "error"]
    /\ UNCHANGED <<now, store, whitelist, fileMeta>>
    /\ UNCHANGED notCompileVars

\* os.Rename(oldpath, "out"): atomic; renaming a file onto itself does nothing
Rename(files, oldpath) ==
    IF oldpath = "out" THEN files
    ELSE [files EXCEPT !["out"] = files[oldpath], ![oldpath] = NoFile]

\* CompileToMMDB: os.Rename(tempPath, outputPath); on an error
\* os.Remove(tempPath) and return
CompileRename ==
    /\ comp.pc = "written"
    /\ \/ /\ fs' = Rename(fs, tempPath)
          /\ fileMeta' = [snap |-> comp.snap, cnow |-> comp.cnow]
          /\ comp' = [comp EXCEPT !.pc = "returned", !.result = "ok"]
       \/ /\ fs' = [fs EXCEPT ![tempPath] = NoFile]
          /\ comp' = [comp EXCEPT !.pc = "returned", !.result = "error"]
          /\ UNCHANGED fileMeta
    /\ UNCHANGED <<now, store, whitelist>>
    /\ UNCHANGED notCompileVars

\* Compile returns to its caller: defer c.mu.Unlock()
CompileReturn ==
    /\ comp.pc = "returned"
    /\ comp' = [IdleCompile EXCEPT !.n = comp.n]
    /\ UNCHANGED <<now, store, whitelist, fs, fileMeta>>
    /\ UNCHANGED notCompileVars

CompileNext ==
    \/ Tick
    \/ \E f \in Feeds, target \in FeedTargets : StoreEntries(f, target)
    \/ \E f \in Feeds, target \in FeedTargets : InsertReputation(f, target)
    \/ AddWhitelist(Prefix(2, 2))
    \/ CompileFetch
    \/ CompileBuild
    \/ CompileCreate
    \/ CompileWrite
    \/ CompileRename
    \/ CompileReturn

-----------------------------------------------------------------------------
(* Callers of PostgresDB.InsertReputation and InsertReputationBatch with    *)
(* entries of any confidence and weight.                                    *)

InitUpsert ==
    /\ upserted = {}
    /\ dbResult = [err |-> FALSE, inserted |-> 0]

\* the (ip_start, ip_end) ranges and the confidence/weight pairs callers pass
UpsertRanges == {IPRangeFromPrefix(Prefix(0, 1)), IPRangeFromAddr(3)}
UpsertLevels == {<<50, 70>>, <<90, 40>>}

\* a database.IPReputationEntry observed at time t
UpsertEntry(range, source, level, t) ==
    [ip_start |-> range[1], ip_end |-> range[2],
     cidr |-> IF range[1] = range[2] THEN NoCidr ELSE Prefix(range[1], 1),
     source |-> source, threat_type |-> FeedThreatType(source),
     confidence |-> level[1], weight |-> level[2],
     first_seen |-> t, last_seen |-> t, expires_at |-> NoTime]

\* the (range, source) keys upserted: spamhaus_drop lists prefixes only,
\* firehol_level1 prefixes and single addresses
UpsertKeys ==
    {<<range, source>> \in UpsertRanges \X Feeds :
        source = "spamhaus_drop" => range[1] # range[2]}

UpsertEntries(t) ==
    {UpsertEntry(key[1], key[2], level, t) : key \in UpsertKeys, level \in UpsertLevels}

\* what the history keeps of an entry: its key, confidence and weight
Observation(e) ==
    [ip_start |-> e.ip_start, ip_end |-> e.ip_end, source |-> e.source,
     confidence |-> e.confidence, weight |-> e.weight]

\* PostgresDB.InsertReputation: one statement; an error leaves the table as
\* it was and is returned
UpsertReputation(e) ==
    /\ \/ /\ store' = Upsert(store, e)
          /\ upserted' = upserted \cup {Observation(e)}
          /\ dbResult' = [err |-> FALSE, inserted |-> 1]
       \/ /\ dbResult' = [err |-> TRUE, inserted |-> 0]
          /\ UNCHANGED <<store, upserted>>
    /\ UNCHANGED now
    /\ UNCHANGED notUpsertVars

\* the table after the statements of a batch, in order
RECURSIVE UpsertAll(_, _)
UpsertAll(table, entries) ==
    IF entries = <<>> THEN table
    ELSE UpsertAll(Upsert(table, Head(entries)), Tail(entries))

\* PostgresDB.InsertReputationBatch: the statements go out as one pgx.Batch,
\* which the server runs as one implicit transaction: all are applied, or a
\* failing statement undoes them all; the error is not returned
UpsertReputationBatch(entries) ==
    /\ \/ /\ store' = UpsertAll(store, entries)
          /\ upserted' = upserted \cup {Observation(entries[i]) : i \in 1..Len(entries)}
          /\ dbResult' = [err |-> FALSE, inserted |-> Len(entries)]
       \/ /\ dbResult' = [err |-> FALSE, inserted |-> 0]
          /\ UNCHANGED <<store, upserted>>
    /\ UNCHANGED now
    /\ UNCHANGED notUpsertVars

\* the clock advances between calls
UpsertTick ==
    /\ now < MaxTime
    /\ now' = now + 1
    /\ UNCHANGED <<store, upserted, dbResult>>
    /\ UNCHANGED notUpsertVars

UpsertNext ==
    \/ UpsertTick
    \/ \E e \in UpsertEntries(now) : UpsertReputation(e)
    \/ \E source \in Feeds, level \in UpsertLevels, r1, r2 \in UpsertRanges :
          /\ <<r1, source>> \in UpsertKeys /\ <<r2, source>> \in UpsertKeys
          /\ UpsertReputationBatch(<<UpsertEntry(r1, source, level, now),
                                     UpsertEntry(r2, source, level, now)>>)

-----------------------------------------------------------------------------
(* Two observations upserted into an empty table in both orders.            *)

\* the observations drawn: any key, level and time
OrderEntries ==
    {UpsertEntry(key[1], key[2], level, t) :
        key \in UpsertKeys, level \in UpsertLevels, t \in 0..MaxTime}

\* no observation drawn
NoEntry ==
    [ip_start |-> 0, ip_end |-> 0, cidr |-> NoCidr, source |-> "", threat_type |-> "",
     confidence |-> 0, weight |-> 0, first_seen |-> NoTime, last_seen |-> NoTime,
     expires_at |-> NoTime]

IdleOrder ==
    /\ obsA = NoEntry
    /\ obsB = NoEntry
    /\ tabAB = {}
    /\ tabBA = {}
    /\ ordStep = 0

DrawOrder ==
    /\ obsA \in OrderEntries
    /\ obsB \in OrderEntries
    /\ tabAB = {}
    /\ tabBA = {}
    /\ ordStep = 0

\* the first upsert: obsA into one table, obsB into the other
OrderFirst ==
    /\ ordStep = 0
    /\ tabAB' = Upsert(tabAB, obsA)
    /\ tabBA' = Upsert(tabBA, obsB)
    /\ ordStep' = 1
    /\ UNCHANGED <<obsA, obsB>>
    /\ UNCHANGED notOrderVars

\* the second upsert: the other observation into each table
OrderSecond ==
    /\ ordStep = 1
    /\ tabAB' = Upsert(tabAB, obsB)
    /\ tabBA' = Upsert(tabBA, obsA)
    /\ ordStep' = 2
    /\ UNCHANGED <<obsA, obsB>>
    /\ UNCHANGED notOrderVars

OrderNext == OrderFirst \/ OrderSecond

-----------------------------------------------------------------------------
(* IPRangeFromPrefix applied to two prefixes.                               *)

\* every valid netip.Prefix, IPv4 and IPv6
NetipPrefixes == {Prefix(a, b) : a \in Addrs \cup Addrs6, b \in 0..AddrBits}

\* no range returned yet
NoRange == <<-1, -1>>

IdleRange ==
    /\ rngP = NoCidr
    /\ rngQ = NoCidr
    /\ rngOut = <<NoRange, NoRange>>

DrawRange ==
    /\ rngP \in NetipPrefixes
    /\ rngQ \in NetipPrefixes
    /\ rngOut = <<NoRange, NoRange>>

\* start, end := IPRangeFromPrefix(rngP)
RangeOfP ==
    /\ rngOut[1] = NoRange
    /\ rngOut' = <<IPRangeFromPrefix(rngP), rngOut[2]>>
    /\ UNCHANGED <<rngP, rngQ>>
    /\ UNCHANGED notRangeVars

\* start, end := IPRangeFromPrefix(rngQ)
RangeOfQ ==
    /\ rngOut[2] = NoRange
    /\ rngOut' = <<rngOut[1], IPRangeFromPrefix(rngQ)>>
    /\ UNCHANGED <<rngP, rngQ>>
    /\ UNCHANGED notRangeVars

RangeNext == RangeOfP \/ RangeOfQ

-----------------------------------------------------------------------------
(* Ingestor.running: goroutines that call Start and Stop again and again.   *)

Callers == 1..NumCallers

IdleCall == [op |-> "none", pc |-> "idle", ret |-> "none"]

IdleFlag ==
    /\ irunning = FALSE
    /\ imu = NoThread
    /\ calls = [c \in Callers |-> IdleCall]
    /\ scheduled = 0
    /\ ncalls = 0

\* a goroutine calls i.Start(ctx) or i.Stop(): i.mu.Lock() comes first
FlagCall(c, op) ==
    /\ calls[c].pc = "idle"
    /\ ncalls < MaxCalls
    /\ ncalls' = ncalls + 1
    /\ calls' = [calls EXCEPT ![c] = [op |-> op, pc |-> "lock", ret |-> "none"]]
    /\ UNCHANGED <<irunning, imu, scheduled>>
    /\ UNCHANGED notFlagVars

\* i.mu.Lock()
FlagLock(c) ==
    /\ calls[c].pc = "lock"
    /\ imu = NoThread
    /\ imu' = c
    /\ calls' = [calls EXCEPT ![c].pc = "locked"]
    /\ UNCHANGED <<irunning, scheduled, ncalls>>
    /\ UNCHANGED notFlagVars

\* a Start that takes the ingestor for stopped whatever the flag says
NeverRunning(flag) == FALSE

\* Start: if i.running
AlreadyRunning(flag) == flag

\* Start: if i.running { unlock; return error }; i.running = true; unlock
FlagStartCheck(c) ==
    /\ calls[c].pc = "locked"
    /\ calls[c].op = "start"
    /\ imu' = NoThread
    /\ IF AlreadyRunning(irunning)
       THEN /\ calls' = [calls EXCEPT ![c].pc = "done",
                                      ![c].ret = "ingestor already running"]
            /\ UNCHANGED irunning
       ELSE /\ calls' = [calls EXCEPT ![c].pc = "schedule"]
            /\ irunning' = TRUE
    /\ UNCHANGED <<scheduled, ncalls>>
    /\ UNCHANGED notFlagVars

\* Start: cron.AddFunc for every enabled feed, cron.Start, runAllFeeds
FlagStartSchedule(c) ==
    /\ calls[c].pc = "schedule"
    /\ scheduled' = scheduled + 1
    /\ calls' = [calls EXCEPT ![c].pc = "serving"]
    /\ UNCHANGED <<irunning, imu, ncalls>>
    /\ UNCHANGED notFlagVars

\* Start: <-ctx.Done(); return nil
FlagStartReturn(c) ==
    /\ calls[c].pc = "serving"
    /\ calls' = [calls EXCEPT ![c].pc = "done", ![c].ret = "nil"]
    /\ UNCHANGED <<irunning, imu, scheduled, ncalls>>
    /\ UNCHANGED notFlagVars

\* Stop: if !i.running { return }, the deferred unlock; else cron.Stop and
\* wg.Wait follow under the lock
FlagStopCheck(c) ==
    /\ calls[c].pc = "locked"
    /\ calls[c].op = "stop"
    /\ IF ~irunning
       THEN /\ calls' = [calls EXCEPT ![c].pc = "done", ![c].ret = "nothing"]
            /\ imu' = NoThread
       ELSE /\ calls' = [calls EXCEPT ![c].pc = "stopping"]
            /\ UNCHANGED imu
    /\ UNCHANGED <<irunning, scheduled, ncalls>>
    /\ UNCHANGED notFlagVars

\* Stop: wg.Wait() has returned; i.running = false; the deferred unlock
FlagStopFinish(c) ==
    /\ calls[c].pc = "stopping"
    /\ irunning' = FALSE
    /\ imu' = NoThread
    /\ calls' = [calls EXCEPT ![c].pc = "done", ![c].ret = "stopped"]
    /\ UNCHANGED <<scheduled, ncalls>>
    /\ UNCHANGED notFlagVars

\* the caller goes on and may call again
FlagReturn(c) ==
    /\ calls[c].pc = "done"
    /\ calls' = [calls EXCEPT ![c] = IdleCall]
    /\ UNCHANGED <<irunning, imu, scheduled, ncalls>>
    /\ UNCHANGED notFlagVars

FlagNext ==
    \E c \in Callers :
        \/ \E op \in {"start", "stop"} : FlagCall(c, op)
        \/ FlagLock(c)
        \/ FlagStartCheck(c)
        \/ FlagStartSchedule(c)
        \/ FlagStartReturn(c)
        \/ FlagStopCheck(c)
        \/ FlagStopFinish(c)
        \/ FlagReturn(c)

-----------------------------------------------------------------------------
(* parseContent and storeEntries applied to two lines of one feed.          *)

\* An address as a feed writes it: dotted IPv4, IPv6, or IPv4-mapped IPv6
\* (::ffff:a.b.c.d).
Literals == [form : {"v4", "v6", "mapped"}, n : Addrs]

\* The token of a line: an address literal, alone or followed by /bits.
Tokens ==
    {[lit |-> l, slash |-> FALSE, bits |-> AddrBits] : l \in Literals}
    \cup {[lit |-> l, slash |-> TRUE, bits |-> b] :
             l \in {k \in Literals : k.form # "mapped"}, b \in 0..AddrBits}

\* IPv4-mapped IPv6 addresses: a third copy of the address space
Addrs4In6 == (2 * Pow2(AddrBits))..(3 * Pow2(AddrBits) - 1)

\* netip.ParseAddr: a mapped literal yields a 4in6 address, not an IPv4 one
ParseAddr(lit) ==
    CASE lit.form = "v4" -> lit.n
      [] lit.form = "v6" -> Pow2(AddrBits) + lit.n
      [] lit.form = "mapped" -> 2 * Pow2(AddrBits) + lit.n

\* netip.Addr.Unmap
Unmap(a) == IF a \in Addrs4In6 THEN a - 2 * Pow2(AddrBits) ELSE a

\* netip.ParsePrefix: the address as written, host bits kept, and the length
ParsePrefix(tok) == Prefix(ParseAddr(tok.lit), tok.bits)

\* the IPv6 literal ::ffff
LastGroupOnes == [form |-> "v6", n |-> Pow2(AddrBits) - 1]

\* iputil.ParseIP on a literal: text without "[" that holds both "." and ":"
\* is cut at its last ":" before netip.ParseAddr, so of ::ffff:a.b.c.d only
\* ::ffff is parsed
ParseIP(lit) ==
    IF lit.form = "mapped" THEN ParseAddr(LastGroupOnes) ELSE ParseAddr(lit)

\* iputil.ParseIPOrPrefix
ParseIPOrPrefix(tok) ==
    IF tok.slash
    THEN [isPrefix |-> TRUE, Prefix |-> ParsePrefix(tok), IP |-> -1]
    ELSE [isPrefix |-> FALSE, Prefix |-> NoCidr, IP |-> ParseIP(tok.lit)]

IdleParse ==
    /\ psLines = <<>>
    /\ psEntries = <<>>
    /\ psDb = <<>>
    /\ psCompiled = <<>>

DrawParse ==
    /\ psLines \in Tokens \X Tokens
    /\ psEntries = <<>>
    /\ psDb = <<>>
    /\ psCompiled = <<>>

\* parseContent: one models.FeedEntry per line
ParseContent ==
    /\ psLines # <<>>
    /\ psEntries = <<>>
    /\ psEntries' = [i \in 1..2 |-> FeedEntry("spamhaus_drop", ParseIPOrPrefix(psLines[i]))]
    /\ UNCHANGED <<psLines, psDb, psCompiled>>
    /\ UNCHANGED notParseVars

\* storeEntries: one database.IPReputationEntry per entry
ConvertEntries ==
    /\ psEntries # <<>>
    /\ psDb = <<>>
    /\ psDb' = [i \in 1..2 |-> DbEntry(psEntries[i], now)]
    /\ UNCHANGED <<psLines, psEntries, psCompiled>>
    /\ UNCHANGED notParseVars

\* The length /32 denotes on address a: the host length of an IPv4 address;
\* an IPv6 address is 96 bits longer, so on one /32 ends above every bit
\* the model keeps of it.
Slash32Bits(a) == IF Is4(a) THEN AddrBits ELSE 0

\* fetchReputationData's ip_range column, as an address followed by its
\* "/n" suffixes: COALESCE(cidr::text, ip_start::text || '/32').  The text
\* of an inet host either carries its own netmask suffix or does not.
IPRangeText(r, withMask) ==
    IF r.cidr # NoCidr THEN [addr |-> r.cidr.addr, suffix |-> <<r.cidr.bits>>]
    ELSE [addr |-> r.ip_start,
          suffix |-> (IF withMask THEN <<AddrBits>> ELSE <<>>)
                        \o <<Slash32Bits(r.ip_start)>>]

\* a row CompileFromIPReputations skips ("Invalid IP range")
InvalidRange == Prefix(-2, -2)

\* CompileFromIPReputations: netip.ParsePrefix, else netip.ParseAddr widened
\* to the host prefix, else the row is skipped
ParseIPRange(text) ==
    IF Len(text.suffix) = 1 THEN Prefix(text.addr, text.suffix[1])
    ELSE IF Len(text.suffix) = 0 THEN Prefix(text.addr, AddrBits)
    ELSE InvalidRange

\* fetchReputationData and CompileFromIPReputations: the prefix each row is
\* inserted under
CompileEntries ==
    /\ psDb # <<>>
    /\ psCompiled = <<>>
    /\ \E withMask \in BOOLEAN :
          psCompiled' = [i \in 1..2 |-> ParseIPRange(IPRangeText(psDb[i], withMask))]
    /\ UNCHANGED <<psLines, psEntries, psDb>>
    /\ UNCHANGED notParseVars

ParseNext == ParseContent \/ ConvertEntries \/ CompileEntries

-----------------------------------------------------------------------------
(* The judge node: handleCheck, handleReload and reloadLoop take Node.mu    *)
(* around their calls of the Reader.                                        *)

InitNode ==
    /\ nodeReaders = {}
    /\ nodeWriter = NoThread

\* handleCheck: n.mu.RLock() before n.mmdbReader.LookupAll(addr)
HandleCheckRLock(t) ==
    /\ lk[t].pc = "idle"
    /\ t \notin nodeReaders
    /\ nodeWriter = NoThread
    /\ nodeReaders' = nodeReaders \cup {t}
    /\ UNCHANGED nodeWriter
    /\ UNCHANGED notNodeVars

\* handleCheck: the steps of LookupAll, made while holding n.mu.RLock
HandleCheckLookup(t) ==
    /\ t \in nodeReaders
    /\ \/ LookupAllStart(t)
       \/ LookupRLock(t)
       \/ LookupLoad(t)
       \/ LookupUse(t)
       \/ LookupRUnlock(t)

\* handleCheck: LookupAll has returned; n.mu.RUnlock()
HandleCheckRUnlock(t) ==
    /\ t \in nodeReaders
    /\ lk[t].pc = "done"
    /\ lk' = [lk EXCEPT ![t] = IdleLookup]
    /\ nodeReaders' = nodeReaders \ {t}
    /\ UNCHANGED <<reputationDB, geoipDB, asnDB, muReaders, muWriter, hstate,
                   rl, installed, nodeWriter>>
    /\ UNCHANGED <<compileVars, upsertVars, orderVars, rangeVars, fetchVars,
                   ingestVars, lookupVars, scoreVars, parseVars, flagVars, confVars,
                   jobVars, apiVars, lineVars>>

\* handleReload / reloadLoop: n.mu.Lock() before n.mmdbReader.Reload(...)
HandleReloadLock(t) ==
    /\ rl[t].pc = "idle"
    /\ nodeWriter = NoThread
    /\ nodeReaders = {}
    /\ nodeWriter' = t
    /\ UNCHANGED nodeReaders
    /\ UNCHANGED notNodeVars

\* handleReload / reloadLoop: the steps of Reload, made while holding n.mu
HandleReloadReload(t) ==
    /\ nodeWriter = t
    /\ \/ ReloadOpenRep(t)
       \/ ReloadOpenOptional(t)
       \/ ReloadLock(t)
       \/ ReloadSwap(t)
       \/ ReloadUnlock(t)
       \/ ReloadCloseOld(t)

\* handleReload / reloadLoop: Reload has returned; n.mu.Unlock()
HandleReloadUnlock(t) ==
    /\ nodeWriter = t
    /\ rl[t].pc = "done"
    /\ nodeWriter' = NoThread
    /\ UNCHANGED nodeReaders
    /\ UNCHANGED notNodeVars

NodeNext ==
    \/ \E t \in LookupThreads :
          \/ HandleCheckRLock(t)
          \/ HandleCheckLookup(t)
          \/ HandleCheckRUnlock(t)
    \/ \E t \in ReloadThreads :
          \/ HandleReloadLock(t)
          \/ HandleReloadReload(t)
          \/ HandleReloadUnlock(t)

-----------------------------------------------------------------------------
(* One call of Reader.LookupAll and what its three sub-lookups return.      *)

\* what a database does for the address: the handle is nil ("nil"), Lookup
\* returns an error ("err"), decodes an empty record ("empty") or a record
\* with data ("data")
DbConds == {"nil", "err", "empty", "data"}

\* the error of LookupReputation: "reputation database not loaded" for a nil
\* handle, else the error of Lookup
LookupReputationErr(cond) == cond \in {"nil", "err"}

\* the error of LookupGeoIP / LookupASN: nil for a nil handle ("not
\* available"), else the error of Lookup
LookupOptionalErr(cond) == cond = "err"

NoResult == [rep |-> "unset", geo |-> "unset", asn |-> "unset", err |-> "unset"]

IdleLookupAll ==
    /\ laDbs = [rep |-> "nil", geo |-> "nil", asn |-> "nil"]
    /\ laPc = "idle"
    /\ laResult = NoResult

\* LookupAll is called on a Reader whose databases are in any condition
DrawLookupAll ==
    /\ laDbs \in [rep : DbConds, geo : DbConds, asn : DbConds]
    /\ laPc = "rep"
    /\ laResult = NoResult

\* rep, err := r.LookupReputation(ip): the error is logged; a record fills
\* the result, nil leaves score 0 and level "clean"
LookupAllReputation ==
    /\ laPc = "rep"
    /\ laResult' = [laResult EXCEPT !.rep =
                        IF laDbs.rep = "data" THEN "record" ELSE "clean"]
    /\ laPc' = "geo"
    /\ UNCHANGED laDbs
    /\ UNCHANGED notLookupVars

\* geo, err := r.LookupGeoIP(ip): the error is logged; result.Geo = geo
LookupAllGeoIP ==
    /\ laPc = "geo"
    /\ laResult' = [laResult EXCEPT !.geo =
                        IF laDbs.geo \in {"empty", "data"} THEN "present" ELSE "absent"]
    /\ laPc' = "asn"
    /\ UNCHANGED laDbs
    /\ UNCHANGED notLookupVars

\* asn, err := r.LookupASN(ip): the error is logged; result.ASN = asn
LookupAllASN ==
    /\ laPc = "asn"
    /\ laResult' = [laResult EXCEPT !.asn =
                        IF laDbs.asn \in {"empty", "data"} THEN "present" ELSE "absent"]
    /\ laPc' = "return"
    /\ UNCHANGED laDbs
    /\ UNCHANGED notLookupVars

\* return result, nil
LookupAllResult ==
    /\ laPc = "return"
    /\ laResult' = [laResult EXCEPT !.err = "nil"]
    /\ laPc' = "done"
    /\ UNCHANGED laDbs
    /\ UNCHANGED notLookupVars

LookupAllNext ==
    LookupAllReputation \/ LookupAllGeoIP \/ LookupAllASN \/ LookupAllResult

-----------------------------------------------------------------------------
(* fetchSource: the retry loop around httpClient.Do.                        *)

\* what one httpClient.Do gives: a 200 response, another status, or an error
\* without a response
DoOutcomes == {"200", "500", "err"}

IdleFetch ==
    /\ maxRetries = 0
    /\ attempt = 0
    /\ resp = "nil"
    /\ fetchErr = FALSE
    /\ fetchPc = "idle"
    /\ fetchLog = <<>>
    /\ fetchRet = "none"

\* fetchSource called, request created, attempt := 0
DrawFetch ==
    /\ maxRetries \in 0..MaxRetriesBound
    /\ attempt = 0
    /\ resp = "nil"
    /\ fetchErr = FALSE
    /\ fetchPc = "loop"
    /\ fetchLog = <<>>
    /\ fetchRet = "none"

\* the sleep after every attempt, the last included
SleepsAfterEvery(att, retries) == TRUE

\* if attempt < MaxRetries { time.Sleep(RetryDelay) }
SleepsAfter(att, retries) == att < retries

\* resp, err = i.httpClient.Do(req); break on err == nil && 200
FetchDo(outcome) ==
    /\ fetchPc = "loop"
    /\ attempt <= maxRetries
    /\ resp' = IF outcome = "err" THEN "nil" ELSE outcome
    /\ fetchErr' = (outcome = "err")
    /\ fetchLog' = Append(fetchLog, outcome)
    /\ fetchPc' = IF outcome = "200" THEN "after" ELSE "failed"
    /\ UNCHANGED <<maxRetries, attempt, fetchRet>>
    /\ UNCHANGED notFetchVars

\* the rest of the loop body after a failed attempt, and attempt++
FetchSleep ==
    /\ fetchPc = "failed"
    /\ fetchLog' = IF SleepsAfter(attempt, maxRetries)
                    THEN Append(fetchLog, "sleep") ELSE fetchLog
    /\ attempt' = attempt + 1
    /\ fetchPc' = "loop"
    /\ UNCHANGED <<maxRetries, resp, fetchErr, fetchRet>>
    /\ UNCHANGED notFetchVars

\* the loop condition attempt <= MaxRetries is false
FetchLoopExit ==
    /\ fetchPc = "loop"
    /\ attempt > maxRetries
    /\ fetchPc' = "after"
    /\ UNCHANGED <<maxRetries, attempt, resp, fetchErr, fetchLog, fetchRet>>
    /\ UNCHANGED notFetchVars

\* after the loop: err != nil, status != 200, io.ReadAll, parseContent
FetchReturn(readOk) ==
    /\ fetchPc = "after"
    /\ fetchRet' = IF fetchErr \/ resp # "200" THEN "error"
                    ELSE IF readOk THEN "entries" ELSE "error"
    /\ fetchPc' = "done"
    /\ UNCHANGED <<maxRetries, attempt, resp, fetchErr, fetchLog>>
    /\ UNCHANGED notFetchVars

FetchNext ==
    \/ \E outcome \in DoOutcomes : FetchDo(outcome)
    \/ FetchSleep
    \/ FetchLoopExit
    \/ \E readOk \in BOOLEAN : FetchReturn(readOk)

-----------------------------------------------------------------------------
(* The ingestor: main, Start, RunOnce, Stop, the cron scheduler and the     *)
(* goroutines that process one feed each.                                   *)

\* the goroutines that process a feed: one per feed started by the loop of
\* runAllFeeds / RunOnce (tick 0), and one per cron tick
WorkerIds ==
    {[kind |-> "run", feed |-> f, tick |-> 0] : f \in Feeds}
        \cup {[kind |-> "cron", feed |-> f, tick |-> k] : f \in Feeds, k \in 1..MaxTicks}

\* a goroutine that has not been started
IdleWorker ==
    [pc |-> "idle", src |-> 1, batch |-> 1, attempted |-> <<>>,
     totalInserted |-> 0, storeErr |-> FALSE, entries |-> 0, stored |-> 0,
     err |-> FALSE, okStored |-> 0, failed |-> FALSE]

\* a goroutine entering processFeed / processFeedWithStats
StartedWorker == [IdleWorker EXCEPT !.pc = "loop"]

\* a goroutine that has ended
DoneWorker == [IdleWorker EXCEPT !.pc = "done"]

\* the feed goroutine is between its start and its return
InFlight(w) == workers[w].pc \notin {"idle", "done"}

IdleIngest ==
    /\ mode = "off"
    /\ mainPc = "off"
    /\ startPc = "off"
    /\ toSpawn = {}
    /\ cancelled = FALSE
    /\ running = FALSE
    /\ wg = 0
    /\ sem = 0
    /\ cronRunning = FALSE
    /\ ticks = 0
    /\ workers = [w \in WorkerIds |-> IdleWorker]
    /\ lateStarts = {}
    /\ totalEntries = 0
    /\ totalStored = 0
    /\ errors = 0
    /\ okTotalStored = 0
    /\ anyFailed = FALSE
    /\ exitCode = -1

\* daemon mode: main has launched go ing.Start(ctx) and waits for a signal
DaemonIngest ==
    /\ mode = "daemon"
    /\ mainPc = "wait"
    /\ startPc = "init"
    /\ toSpawn = Feeds
    /\ cancelled = FALSE
    /\ running = FALSE
    /\ wg = 0
    /\ sem = 0
    /\ cronRunning = FALSE
    /\ ticks = 0
    /\ workers = [w \in WorkerIds |-> IdleWorker]
    /\ lateStarts = {}
    /\ totalEntries = 0
    /\ totalStored = 0
    /\ errors = 0
    /\ okTotalStored = 0
    /\ anyFailed = FALSE
    /\ exitCode = -1

\* -once mode: main has called ing.RunOnce(ctx)
OnceIngest ==
    /\ mode = "once"
    /\ mainPc = "runonce"
    /\ startPc = "spawn"
    /\ toSpawn = Feeds
    /\ cancelled = FALSE
    /\ running = FALSE
    /\ wg = 0
    /\ sem = 0
    /\ cronRunning = FALSE
    /\ ticks = 0
    /\ workers = [w \in WorkerIds |-> IdleWorker]
    /\ lateStarts = {}
    /\ totalEntries = 0
    /\ totalStored = 0
    /\ errors = 0
    /\ okTotalStored = 0
    /\ anyFailed = FALSE
    /\ exitCode = -1

\* ingestor.concurrency as the model's configuration sets it
DefaultConf == semCap = Concurrency

\* ingestor.concurrency: any value from 0 on; nothing validates it
AnyConf == semCap \in 0..Concurrency

\* ingestor.concurrency at its default (10): no fewer slots than feeds, so
\* that all feed goroutines run at once
WideConf == semCap = Cardinality(Feeds)

\* -once mode with any set of enabled feeds
OnceIngestAny ==
    /\ mode = "once"
    /\ mainPc = "runonce"
    /\ startPc = "spawn"
    /\ toSpawn \in SUBSET Feeds
    /\ cancelled = FALSE
    /\ running = FALSE
    /\ wg = 0
    /\ sem = 0
    /\ cronRunning = FALSE
    /\ ticks = 0
    /\ workers = [w \in WorkerIds |-> IdleWorker]
    /\ lateStarts = {}
    /\ totalEntries = 0
    /\ totalStored = 0
    /\ errors = 0
    /\ okTotalStored = 0
    /\ anyFailed = FALSE
    /\ exitCode = -1

\* Start up to runAllFeeds: running = true, one cron entry per enabled feed,
\* i.cron.Start()
Start ==
    /\ mode = "daemon"
    /\ startPc = "init"
    /\ running' = TRUE
    /\ cronRunning' = TRUE
    /\ startPc' = "spawn"
    /\ UNCHANGED <<mode, mainPc, toSpawn, cancelled, wg, sem, ticks, workers,
                   lateStarts, totalEntries, totalStored, errors, exitCode>>
    /\ UNCHANGED <<okTotalStored, anyFailed>>
    /\ UNCHANGED notIngestVars

\* the scheduler fires the entry of feed f: go i.processFeed(ctx, f, ...)
CronTick(f) ==
    /\ cronRunning
    /\ ticks < MaxTicks
    /\ ticks' = ticks + 1
    /\ workers' = [workers EXCEPT
                     ![[kind |-> "cron", feed |-> f, tick |-> ticks + 1]] = StartedWorker]
    /\ UNCHANGED <<mode, mainPc, startPc, toSpawn, cancelled, running, wg, sem,
                   cronRunning, lateStarts, totalEntries, totalStored, errors, exitCode>>
    /\ UNCHANGED <<okTotalStored, anyFailed>>
    /\ UNCHANGED notIngestVars

\* the loop of runAllFeeds / RunOnce: sem <- struct{}{}, i.wg.Add(1), go ...
Spawn(f) ==
    /\ startPc = "spawn"
    /\ f \in toSpawn
    /\ sem < semCap
    /\ sem' = sem + 1
    /\ wg' = wg + 1
    /\ toSpawn' = toSpawn \ {f}
    /\ workers' = [workers EXCEPT ![[kind |-> "run", feed |-> f, tick |-> 0]] = StartedWorker]
    /\ UNCHANGED <<mode, mainPc, startPc, cancelled, running, cronRunning, ticks,
                   lateStarts, totalEntries, totalStored, errors, exitCode>>
    /\ UNCHANGED <<okTotalStored, anyFailed>>
    /\ UNCHANGED notIngestVars

\* the loop over the enabled feeds ends; i.wg.Wait() follows
SpawnDone ==
    /\ startPc = "spawn"
    /\ toSpawn = {}
    /\ startPc' = "wait"
    /\ UNCHANGED <<mode, mainPc, toSpawn, cancelled, running, wg, sem, cronRunning,
                   ticks, workers, lateStarts, totalEntries, totalStored, errors,
                   exitCode>>
    /\ UNCHANGED <<okTotalStored, anyFailed>>
    /\ UNCHANGED notIngestVars

\* i.wg.Wait() returns.  runAllFeeds returns to Start, which blocks on
\* <-ctx.Done(); RunOnce returns err iff len(errors) > 0 and main exits with
\* 1 on an error, else with 0.
WaitDone ==
    /\ startPc = "wait"
    /\ wg = 0
    /\ startPc' = IF mode = "daemon" THEN "ctxwait" ELSE "returned"
    /\ exitCode' = IF mode = "daemon" THEN exitCode
                   ELSE IF errors > 0 THEN 1 ELSE 0
    /\ mainPc' = IF mode = "daemon" THEN mainPc ELSE "exited"
    /\ UNCHANGED <<mode, toSpawn, cancelled, running, wg, sem, cronRunning, ticks,
                   workers, lateStarts, totalEntries, totalStored, errors>>
    /\ UNCHANGED <<okTotalStored, anyFailed>>
    /\ UNCHANGED notIngestVars

\* Start: <-ctx.Done() and return
StartReturn ==
    /\ startPc = "ctxwait"
    /\ cancelled
    /\ startPc' = "returned"
    /\ UNCHANGED <<mode, mainPc, toSpawn, cancelled, running, wg, sem, cronRunning,
                   ticks, workers, lateStarts, totalEntries, totalStored, errors,
                   exitCode>>
    /\ UNCHANGED <<okTotalStored, anyFailed>>
    /\ UNCHANGED notIngestVars

\* main: SIGINT/SIGTERM received, cancel().  The signal is taken to arrive
\* after Start has scheduled the feeds.
Signal ==
    /\ mainPc = "wait"
    /\ startPc # "init"
    /\ cancelled' = TRUE
    /\ mainPc' = "stop"
    /\ UNCHANGED <<mode, startPc, toSpawn, running, wg, sem, cronRunning, ticks,
                   workers, lateStarts, totalEntries, totalStored, errors, exitCode>>
    /\ UNCHANGED <<okTotalStored, anyFailed>>
    /\ UNCHANGED notIngestVars

\* Stop: lock, running is true, i.cron.Stop() (the context it returns is
\* dropped), then i.wg.Wait()
StopBegin ==
    /\ mainPc = "stop"
    /\ cronRunning' = FALSE
    /\ mainPc' = IF running THEN "stopwait" ELSE "stopped"
    /\ UNCHANGED <<mode, startPc, toSpawn, cancelled, running, wg, sem, ticks,
                   workers, lateStarts, totalEntries, totalStored, errors, exitCode>>
    /\ UNCHANGED <<okTotalStored, anyFailed>>
    /\ UNCHANGED notIngestVars

\* Stop: i.wg.Wait() returns, running = false, unlock, return
StopReturn ==
    /\ mainPc = "stopwait"
    /\ wg = 0
    /\ running' = FALSE
    /\ mainPc' = "stopped"
    /\ UNCHANGED <<mode, startPc, toSpawn, cancelled, wg, sem, cronRunning, ticks,
                   workers, lateStarts, totalEntries, totalStored, errors, exitCode>>
    /\ UNCHANGED <<okTotalStored, anyFailed>>
    /\ UNCHANGED notIngestVars

\* the feed is given up at the first source that fails
AbortFeedAfterError(src) == NumSources + 1

\* continue: after a source that failed, the loop goes on to the next source
NextSourceAfterError(src) == src + 1

\* the error InsertReputationBatch returns when only counted of the
\* statements of a batch succeeded: always nil
BatchErr(counted) == FALSE

\* a count as far as the program keeps it: processFeedWithStats and
\* storeEntriesWithCount return their counts; processFeed and storeEntries
\* only write theirs to the log
Kept(n) == IF mode = "once" THEN n ELSE 0

\* head of the loop over feedConfig.Sources: the loop ends, or ctx is done
\* and the function returns (processFeedWithStats with ctx.Err()), or
\* fetchSource is called for the next source
ProcessSource(w) ==
    LET W == workers[w] IN
    /\ W.pc = "loop"
    /\ workers' = [workers EXCEPT ![w] =
          IF W.src > NumSources THEN [W EXCEPT !.pc = "return"]
          ELSE IF cancelled THEN [W EXCEPT !.pc = "return", !.err = TRUE]
          ELSE [W EXCEPT !.pc = "fetch", !.attempted = Append(@, W.src)]]
    /\ UNCHANGED <<mode, mainPc, startPc, toSpawn, cancelled, running, wg, sem,
                   cronRunning, ticks, lateStarts, totalEntries, totalStored,
                   errors, exitCode>>
    /\ UNCHANGED <<okTotalStored, anyFailed>>
    /\ UNCHANGED notIngestVars

\* fetchSource returns: an error (continue), or the entries of the source,
\* which storeEntries / storeEntriesWithCount converts and cuts into batches
FetchSourceReturn(w, ok) ==
    LET W == workers[w] IN
    /\ W.pc = "fetch"
    /\ workers' = [workers EXCEPT ![w] =
          IF ok
          THEN [W EXCEPT !.pc = "store", !.batch = 1, !.totalInserted = 0,
                         !.entries = @ + Kept(NumBatches * BatchLen)]
          ELSE [W EXCEPT !.pc = "loop", !.src = NextSourceAfterError(W.src),
                         !.failed = TRUE]]
    /\ UNCHANGED <<mode, mainPc, startPc, toSpawn, cancelled, running, wg, sem,
                   cronRunning, ticks, lateStarts, totalEntries, totalStored,
                   errors, exitCode>>
    /\ UNCHANGED <<okTotalStored, anyFailed>>
    /\ UNCHANGED notIngestVars

\* head of the batch loop: the next batch is sent with
\* InsertReputationBatch(context.Background(), batch), or the loop is over
\* and storeEntries / storeEntriesWithCount returns
StoreBatch(w) ==
    LET W == workers[w] IN
    /\ W.pc = "store"
    /\ workers' = [workers EXCEPT ![w] =
          IF W.batch > NumBatches
          THEN [W EXCEPT !.pc = "stored", !.storeErr = FALSE]
          ELSE [W EXCEPT !.pc = "batch"]]
    /\ lateStarts' = IF W.batch <= NumBatches /\ cancelled
                     THEN lateStarts \cup {<<w, W.src, W.batch>>} ELSE lateStarts
    /\ UNCHANGED <<mode, mainPc, startPc, toSpawn, cancelled, running, wg, sem,
                   cronRunning, ticks, totalEntries, totalStored, errors, exitCode>>
    /\ UNCHANGED <<okTotalStored, anyFailed>>
    /\ UNCHANGED notIngestVars

\* InsertReputationBatch returns: counted statements succeeded (all of them
\* unless one failed).  On err != nil storeEntries goes on with the next
\* batch and storeEntriesWithCount returns the error.
BatchReturn(w, counted) ==
    LET W == workers[w] IN
    /\ W.pc = "batch"
    /\ workers' = [workers EXCEPT ![w] =
          IF BatchErr(counted)
          THEN IF mode = "once"
               THEN [W EXCEPT !.pc = "stored", !.storeErr = TRUE, !.failed = TRUE]
               ELSE [W EXCEPT !.pc = "store", !.batch = @ + 1, !.failed = TRUE]
          ELSE [W EXCEPT !.pc = "store", !.batch = @ + 1,
                         !.totalInserted = @ + Kept(counted),
                         !.okStored = @ + (IF counted = BatchLen THEN Kept(BatchLen) ELSE 0),
                         !.failed = @ \/ counted < BatchLen]]
    /\ UNCHANGED <<mode, mainPc, startPc, toSpawn, cancelled, running, wg, sem,
                   cronRunning, ticks, lateStarts, totalEntries, totalStored,
                   errors, exitCode>>
    /\ UNCHANGED <<okTotalStored, anyFailed>>
    /\ UNCHANGED notIngestVars

\* storeEntries / storeEntriesWithCount has returned: on an error the loop
\* goes on to the next source, else the count is added to the feed's total
StoreReturn(w) ==
    LET W == workers[w] IN
    /\ W.pc = "stored"
    /\ workers' = [workers EXCEPT ![w] =
          IF W.storeErr
          THEN [W EXCEPT !.pc = "loop", !.src = NextSourceAfterError(W.src)]
          ELSE [W EXCEPT !.pc = "loop", !.src = @ + 1,
                         !.stored = @ + W.totalInserted]]
    /\ UNCHANGED <<mode, mainPc, startPc, toSpawn, cancelled, running, wg, sem,
                   cronRunning, ticks, lateStarts, totalEntries, totalStored,
                   errors, exitCode>>
    /\ UNCHANGED <<okTotalStored, anyFailed>>
    /\ UNCHANGED notIngestVars

\* an addition written without RunOnce's mutex: the goroutine writes back the
\* sum it computed from the total it read when the run began
AddUnlocked(total, n) == n

\* totalEntries += entries / totalStored += stored, between mu.Lock() and
\* mu.Unlock() of RunOnce's local mutex
AddToTotal(total, n) == total + n

\* the goroutine ends: RunOnce adds the feed's numbers and its error to the
\* totals; a goroutine of runAllFeeds / RunOnce releases the semaphore and
\* calls i.wg.Done(); a cron job just ends
WorkerReturn(w) ==
    LET W == workers[w] IN
    /\ W.pc = "return"
    /\ workers' = [workers EXCEPT ![w] = DoneWorker]
    /\ sem' = IF w.kind = "run" THEN sem - 1 ELSE sem
    /\ wg' = IF w.kind = "run" THEN wg - 1 ELSE wg
    /\ totalEntries' = IF mode = "once" THEN AddToTotal(totalEntries, W.entries) ELSE totalEntries
    /\ totalStored' = IF mode = "once" THEN AddToTotal(totalStored, W.stored) ELSE totalStored
    /\ errors' = IF mode = "once" /\ W.err THEN errors + 1 ELSE errors
    /\ okTotalStored' = IF mode = "once" THEN okTotalStored + W.okStored ELSE okTotalStored
    /\ anyFailed' = (anyFailed \/ W.failed)
    /\ UNCHANGED <<mode, mainPc, startPc, toSpawn, cancelled, running, cronRunning,
                   ticks, lateStarts, exitCode>>
    /\ UNCHANGED notIngestVars

WorkerNext ==
    \E w \in WorkerIds :
        \/ ProcessSource(w)
        \/ \E ok \in BOOLEAN : FetchSourceReturn(w, ok)
        \/ StoreBatch(w)
        \/ StoreReturn(w)
        \/ \E counted \in 0..BatchLen : BatchReturn(w, counted)
        \/ WorkerReturn(w)

DaemonNext ==
    \/ Start
    \/ \E f \in Feeds : CronTick(f)
    \/ \E f \in Feeds : Spawn(f)
    \/ SpawnDone
    \/ WaitDone
    \/ StartReturn
    \/ Signal
    \/ StopBegin
    \/ StopReturn
    \/ WorkerNext

\* the daemon's initial run of all feeds, with no signal and no cron tick yet
RunNext ==
    \/ Start
    \/ \E f \in Feeds : Spawn(f)
    \/ SpawnDone
    \/ WaitDone
    \/ WorkerNext

OnceNext ==
    \/ \E f \in Feeds : Spawn(f)
    \/ SpawnDone
    \/ WaitDone
    \/ WorkerNext

-----------------------------------------------------------------------------
(* parseContent line by line (internal/ingestor/ingestor.go, pkg/iputil).   *)

\* A trimmed line as text: an optional comment mark at its start, a token
\* (an address or prefix literal, or a host name such as bad.example), an
\* optional ":port" and an optional trailing comment of plain words after
\* " ;" or " #".  IPv6 literals are written in full, all eight groups.
BadToken == [lit |-> [form |-> "bad", n |-> 0], slash |-> FALSE, bits |-> AddrBits]

LineTokens ==
    {[lit |-> [form |-> f, n |-> 1], slash |-> FALSE, bits |-> AddrBits] :
        f \in {"v4", "v6", "mapped"}}
    \cup {[lit |-> [form |-> "v4", n |-> 0], slash |-> TRUE, bits |-> 1], BadToken}

\* ":8080", ":http", ":99999", or no port
Ports == {"", "ok", "text", "big"}

Formats == {"plain", "ip_port", "cidr_comments", "netset"}

EmptyLine == [lead |-> "empty", tok |-> BadToken, port |-> "", tail |-> ""]

Lines ==
    {EmptyLine}
    \cup {[lead |-> l, tok |-> BadToken, port |-> "", tail |-> ""] : l \in {"#", ";", "//"}}
    \cup [lead : {""}, tok : LineTokens, port : Ports, tail : {"", ";", "#"}]

\* strings.Contains(s, ".")
HasDot(t) == t.tok.lit.form \in {"v4", "mapped", "bad"}

\* the number of ":" in the text
Colons(t) ==
    (CASE t.tok.lit.form = "v6" -> 7
       [] t.tok.lit.form = "mapped" -> 3
       [] OTHER -> 0)
    + (IF t.port = "" THEN 0 ELSE 1)

ParseFailed == [err |-> TRUE, val |-> [isPrefix |-> FALSE, Prefix |-> NoCidr, IP |-> -1]]

ParsedAddr(a) == [err |-> FALSE, val |-> [isPrefix |-> FALSE, Prefix |-> NoCidr, IP |-> a]]

\* iputil.ParseIPOrPrefix on text.  With a "/": netip.ParsePrefix of the
\* whole text.  Without: iputil.ParseIP, which cuts text holding both "."
\* and ":" at its last ":" and hands the rest to netip.ParseAddr.
ParseIPOrPrefixText(t) ==
    IF t.tok.slash
    THEN IF t.port = "" /\ t.tail = ""
         THEN [err |-> FALSE, val |-> ParseIPOrPrefix(t.tok)]
         ELSE ParseFailed
    ELSE IF HasDot(t) /\ Colons(t) > 0
    THEN IF t.port # ""
         THEN IF t.tok = BadToken THEN ParseFailed ELSE ParsedAddr(ParseAddr(t.tok.lit))
         ELSE ParsedAddr(ParseAddr(LastGroupOnes))
    ELSE IF t.tok = BadToken \/ t.port # "" \/ t.tail # ""
         THEN ParseFailed
         ELSE ParsedAddr(ParseAddr(t.tok.lit))

\* iputil.ParseIPPort: strings.Split(s, ":") must give two parts, the first
\* an address for ParseIP, the second a number from 0 to 65535 for Atoi
ParseIPPort(t) ==
    IF Colons(t) # 1 THEN ParseFailed
    ELSE IF t.tok.slash \/ t.tok = BadToken THEN ParseFailed
    ELSE IF t.port = "ok" /\ t.tail = "" THEN ParsedAddr(ParseAddr(t.tok.lit))
    ELSE ParseFailed

\* the text of an address: addr.String()
AddrText(tok) == [lead |-> "", tok |-> tok, port |-> "", tail |-> ""]

\* strings.TrimSpace(strings.SplitN(line, ";", 2)[0])
BeforeSemicolon(t) == IF t.tail = ";" THEN [t EXCEPT !.tail = ""] ELSE t

\* the switch on format and the ParseIPOrPrefix after it
ParseLine(format, line) ==
    CASE format = "ip_port" ->
            IF ParseIPPort(line).err THEN ParseFailed
            ELSE ParseIPOrPrefixText(AddrText(line.tok))
      [] format = "cidr_comments" -> ParseIPOrPrefixText(BeforeSemicolon(line))
      [] OTHER -> ParseIPOrPrefixText(line)

\* line == "" after the trim, or a line beginning with "#", ";" or "//"
\* (or the format's comment prefix, one of these)
Skipped(line) == line.lead # ""

NoRun == [done |-> FALSE, entries |-> <<>>]

IdleLines ==
    /\ lnFormat = "plain"
    /\ lnLines = <<>>
    /\ lnPc = "idle"
    /\ lnI = 1
    /\ lnEntries = <<>>
    /\ lnErr = "unset"
    /\ lnFirst = NoRun

\* parseContent is called with some content and some format
DrawLines ==
    /\ lnFormat \in Formats
    /\ lnLines \in [1..NumLines -> Lines]
    /\ lnPc = "loop"
    /\ lnI = 1
    /\ lnEntries = <<>>
    /\ lnErr = "unset"
    /\ lnFirst = NoRun

\* a loop that gives up at the first line it cannot parse
AbortAtLine(i) == NumLines + 1

\* continue: the loop goes on with the next line
ContinueAfter(i) == i + 1

\* one iteration of the loop over the lines
ParseContentLine ==
    /\ lnPc = "loop"
    /\ lnI <= NumLines
    /\ LET line == lnLines[lnI]
           parsed == ParseLine(lnFormat, line)
       IN  IF Skipped(line) THEN /\ lnI' = lnI + 1
                                 /\ UNCHANGED lnEntries
           ELSE IF parsed.err THEN /\ lnI' = ContinueAfter(lnI)
                                   /\ UNCHANGED lnEntries
           ELSE /\ lnI' = lnI + 1
                /\ lnEntries' = Append(lnEntries, FeedEntry("spamhaus_drop", parsed.val))
    /\ UNCHANGED <<lnFormat, lnLines, lnPc, lnErr, lnFirst>>
    /\ UNCHANGED notLineVars

\* return entries, nil
ParseContentReturn ==
    /\ lnPc = "loop"
    /\ lnI > NumLines
    /\ lnPc' = "returned"
    /\ lnErr' = "nil"
    /\ UNCHANGED <<lnFormat, lnLines, lnI, lnEntries, lnFirst>>
    /\ UNCHANGED notLineVars

\* the same content is fetched and parsed again
ParseContentAgain ==
    /\ lnPc = "returned"
    /\ lnFirst = NoRun
    /\ lnFirst' = [done |-> TRUE, entries |-> lnEntries]
    /\ lnPc' = "loop"
    /\ lnI' = 1
    /\ lnEntries' = <<>>
    /\ lnErr' = "unset"
    /\ UNCHANGED <<lnFormat, lnLines>>
    /\ UNCHANGED notLineVars

LinesNext == ParseContentLine \/ ParseContentReturn \/ ParseContentAgain

-----------------------------------------------------------------------------
(* The API's check and reload handlers (performIPCheck, ReloadMMDB).        *)

\* concurrent calls of performIPCheck for one address, which every version
\* of the reputation database lists
Checks == 1..NumChecks

\* the Reader main installed with SetMMDBReader, and the one a reload opens
FirstReader == 0
ReloadedReader == 1

NoAnswer == [level |-> "none", from |-> -1, onClosed |-> FALSE, Cached |-> FALSE]

IdleCheck == [pc |-> "idle", reader |-> -1, result |-> NoAnswer, afterReload |-> FALSE]

IdleHandler == [pc |-> "idle", oldReader |-> -1, newReader |-> -1]

InitApi ==
    /\ mmdbReader = FirstReader
    /\ closedReaders = {}
    /\ apiCache = NoAnswer
    /\ chk = [t \in Checks |-> IdleCheck]
    /\ rh = IdleHandler

\* reader.LookupAll(addr) for the listed address: on a closed Reader the
\* reputation handle's Lookup returns an error, which LookupAll logs, leaving
\* score 0 and level "clean", and LookupAll returns the result with a nil error
ReaderLookupAll(reader) ==
    IF reader \in closedReaders
    THEN [level |-> "clean", from |-> reader, onClosed |-> TRUE, Cached |-> FALSE]
    ELSE [level |-> "listed", from |-> reader, onClosed |-> FALSE, Cached |-> FALSE]

\* performIPCheck: c.Get(cacheCtx, ipStr); a hit is returned with Cached set
CheckCacheGet(t) ==
    /\ chk[t].pc = "idle"
    /\ chk' = [chk EXCEPT ![t] =
          IF apiCache # NoAnswer
          THEN [pc |-> "done", reader |-> -1, result |-> [apiCache EXCEPT !.Cached = TRUE],
                afterReload |-> rh.pc = "returned"]
          ELSE [pc |-> "getreader", reader |-> -1, result |-> NoAnswer,
                afterReload |-> rh.pc = "returned"]]
    /\ UNCHANGED <<mmdbReader, closedReaders, apiCache, rh>>
    /\ UNCHANGED notApiVars

\* reader := getMMDBReader(): the pointer is read under mmdbMu.RLock, which
\* is released before the Reader is used
CheckGetReader(t) ==
    /\ chk[t].pc = "getreader"
    /\ chk' = [chk EXCEPT ![t].pc = "lookup", ![t].reader = mmdbReader]
    /\ UNCHANGED <<mmdbReader, closedReaders, apiCache, rh>>
    /\ UNCHANGED notApiVars

\* result, err := reader.LookupAll(addr)
CheckLookupAll(t) ==
    /\ chk[t].pc = "lookup"
    /\ chk' = [chk EXCEPT ![t].pc = "set", ![t].result = ReaderLookupAll(chk[t].reader)]
    /\ UNCHANGED <<mmdbReader, closedReaders, apiCache, rh>>
    /\ UNCHANGED notApiVars

\* c.Set(cacheCtx, ipStr, result) and return *result
CheckCacheSet(t) ==
    /\ chk[t].pc = "set"
    /\ apiCache' = chk[t].result
    /\ chk' = [chk EXCEPT ![t].pc = "done"]
    /\ UNCHANGED <<mmdbReader, closedReaders, rh>>
    /\ UNCHANGED notApiVars

\* the request is over; the goroutine serves the next one
CheckReturn(t) ==
    /\ chk[t].pc = "done"
    /\ chk' = [chk EXCEPT ![t] = IdleCheck]
    /\ UNCHANGED <<mmdbReader, closedReaders, apiCache, rh>>
    /\ UNCHANGED notApiVars

\* ReloadMMDB: cache.Clear(cacheCtx), first
ReloadMMDBClear ==
    /\ rh.pc = "idle"
    /\ apiCache' = NoAnswer
    /\ rh' = [rh EXCEPT !.pc = "cleared"]
    /\ UNCHANGED <<mmdbReader, closedReaders, chk>>
    /\ UNCHANGED notApiVars

\* newReader, err := mmdb.NewReader(...): an error is answered with status
\* 500 and nothing else is done
ReloadMMDBOpen(ok) ==
    /\ rh.pc = "cleared"
    /\ rh' = IF ok THEN [rh EXCEPT !.pc = "opened", !.newReader = ReloadedReader]
                  ELSE [rh EXCEPT !.pc = "failed"]
    /\ UNCHANGED <<mmdbReader, closedReaders, apiCache, chk>>
    /\ UNCHANGED notApiVars

\* mmdbMu.Lock(); oldReader := mmdbReader; mmdbReader = newReader; mmdbMu.Unlock()
ReloadMMDBSwap ==
    /\ rh.pc = "opened"
    /\ rh' = [rh EXCEPT !.pc = "swapped", !.oldReader = mmdbReader]
    /\ mmdbReader' = rh.newReader
    /\ UNCHANGED <<closedReaders, apiCache, chk>>
    /\ UNCHANGED notApiVars

\* oldReader.Close() and the answer "MMDB reloaded successfully, cache cleared"
ReloadMMDBClose ==
    /\ rh.pc = "swapped"
    /\ closedReaders' = closedReaders \cup {rh.oldReader}
    /\ rh' = [rh EXCEPT !.pc = "returned"]
    /\ UNCHANGED <<mmdbReader, apiCache, chk>>
    /\ UNCHANGED notApiVars

ApiNext ==
    \/ \E t \in Checks :
          \/ CheckCacheGet(t)
          \/ CheckGetReader(t)
          \/ CheckLookupAll(t)
          \/ CheckCacheSet(t)
          \/ CheckReturn(t)
    \/ ReloadMMDBClear
    \/ \E ok \in BOOLEAN : ReloadMMDBOpen(ok)
    \/ ReloadMMDBSwap
    \/ ReloadMMDBClose

-----------------------------------------------------------------------------
(* Overlapping runs of storeEntries for one feed.                           *)

\* The runs of one feed that can overlap: Start starts the cron scheduler
\* and then runs every feed itself, and cron starts each job in a goroutine
\* of its own.
StoreJobs == {"initial", "cron"}

IdleJob == [pc |-> "idle", dbEntry |-> NoEntry]

IdleJobs == stJobs = [j \in StoreJobs |-> IdleJob]

\* what the runs of storeEntries leave unchanged besides the table
notJobStoreVars ==
    <<readerVars, now, whitelist, comp, fs, fileMeta, upsertVars, orderVars, rangeVars,
      fetchVars, ingestVars, lookupVars, nodeVars, scoreVars, parseVars, flagVars, confVars,
      apiVars, lineVars>>

\* storeEntries: now := time.Now() and the conversion of an entry of the
\* feed with FirstSeen = LastSeen = now
StoreEntriesConvert(j, target) ==
    /\ stJobs[j].pc = "idle"
    /\ stJobs' = [stJobs EXCEPT ![j] =
          [pc |-> "converted", dbEntry |-> DbEntry(FeedEntry("spamhaus_drop", target), now)]]
    /\ UNCHANGED store
    /\ UNCHANGED notJobStoreVars

\* storeEntries: InsertReputationBatch sends the batch; the statement of
\* the entry is applied, or fails and is skipped
StoreEntriesInsert(j, ok) ==
    /\ stJobs[j].pc = "converted"
    /\ store' = IF ok THEN Upsert(store, stJobs[j].dbEntry) ELSE store
    /\ stJobs' = [stJobs EXCEPT ![j] = [pc |-> "done", dbEntry |-> NoEntry]]
    /\ UNCHANGED notJobStoreVars

JobNext ==
    \/ Tick
    \/ \E j \in StoreJobs, target \in FeedTargets : StoreEntriesConvert(j, target)
    \/ \E j \in StoreJobs, ok \in BOOLEAN : StoreEntriesInsert(j, ok)

-----------------------------------------------------------------------------
(* Initial states and specifications.                                       *)

\* the service after start-up: databases opened, empty tables, no output file
Init ==
    InitReader /\ InitStore /\ InitCompile /\ InitUpsert /\ IdleOrder /\ IdleRange /\ IdleFetch
        /\ IdleIngest /\ IdleLookupAll /\ InitNode /\ IdleScore /\ IdleParse /\ IdleFlag /\ DefaultConf /\ IdleJobs /\ InitApi /\ IdleLines

\* two observations drawn, nothing upserted yet
InitOrder ==
    InitReader /\ InitStore /\ InitCompile /\ InitUpsert /\ DrawOrder /\ IdleRange /\ IdleFetch
        /\ IdleIngest /\ IdleLookupAll /\ InitNode /\ IdleScore /\ IdleParse /\ IdleFlag /\ DefaultConf /\ IdleJobs /\ InitApi /\ IdleLines

\* two prefixes drawn, nothing computed yet
InitRange ==
    InitReader /\ InitStore /\ InitCompile /\ InitUpsert /\ IdleOrder /\ DrawRange /\ IdleFetch
        /\ IdleIngest /\ IdleLookupAll /\ InitNode /\ IdleScore /\ IdleParse /\ IdleFlag /\ DefaultConf /\ IdleJobs /\ InitApi /\ IdleLines

\* fetchSource called with some max_retries
InitFetch ==
    InitReader /\ InitStore /\ InitCompile /\ InitUpsert /\ IdleOrder /\ IdleRange /\ DrawFetch
        /\ IdleIngest /\ IdleLookupAll /\ InitNode /\ IdleScore /\ IdleParse /\ IdleFlag /\ DefaultConf /\ IdleJobs /\ InitApi /\ IdleLines

\* One call of fetchSource.
SpecFetch == InitFetch /\ [][FetchNext]_vars

\* the ingestor binary started as a daemon
InitDaemon ==
    InitReader /\ InitStore /\ InitCompile /\ InitUpsert /\ IdleOrder /\ IdleRange /\ IdleFetch
        /\ DaemonIngest /\ IdleLookupAll /\ InitNode /\ IdleScore /\ IdleParse /\ IdleFlag /\ DefaultConf /\ IdleJobs /\ InitApi /\ IdleLines

\* the ingestor binary started with -once
InitOnce ==
    InitReader /\ InitStore /\ InitCompile /\ InitUpsert /\ IdleOrder /\ IdleRange /\ IdleFetch
        /\ OnceIngest /\ IdleLookupAll /\ InitNode /\ IdleScore /\ IdleParse /\ IdleFlag /\ DefaultConf /\ IdleJobs /\ InitApi /\ IdleLines

\* The ingestor daemon: Start, cron ticks, signal, Stop.
SpecDaemon == InitDaemon /\ [][DaemonNext]_vars

\* LookupAll called on a Reader in some condition
InitLookupAll ==
    InitReader /\ InitStore /\ InitCompile /\ InitUpsert /\ IdleOrder /\ IdleRange /\ IdleFetch
        /\ IdleIngest /\ DrawLookupAll /\ InitNode /\ IdleScore /\ IdleParse /\ IdleFlag /\ DefaultConf /\ IdleJobs /\ InitApi /\ IdleLines

\* Calls of CalculateScore, calculateDecay and ClassifyRisk.
InitScore ==
    InitReader /\ InitStore /\ InitCompile /\ InitUpsert /\ IdleOrder /\ IdleRange
        /\ IdleFetch /\ IdleIngest /\ IdleLookupAll /\ InitNode /\ DrawScore /\ IdleParse /\ IdleFlag /\ DefaultConf /\ IdleJobs /\ InitApi /\ IdleLines
InitDecay ==
    InitReader /\ InitStore /\ InitCompile /\ InitUpsert /\ IdleOrder /\ IdleRange
        /\ IdleFetch /\ IdleIngest /\ IdleLookupAll /\ InitNode /\ DrawDecay /\ IdleParse /\ IdleFlag /\ DefaultConf /\ IdleJobs /\ InitApi /\ IdleLines
InitClassify ==
    InitReader /\ InitStore /\ InitCompile /\ InitUpsert /\ IdleOrder /\ IdleRange
        /\ IdleFetch /\ IdleIngest /\ IdleLookupAll /\ InitNode /\ DrawClassify /\ IdleParse /\ IdleFlag /\ DefaultConf /\ IdleJobs /\ InitApi /\ IdleLines
SpecScore == InitScore /\ [][ApplyCalculateScore]_vars
SpecDecay == InitDecay /\ [][ApplyCalculateDecay]_vars
SpecClassify == InitClassify /\ [][ApplyClassifyRisk]_vars
SpecLevels == InitClassify /\ [][ApplyRiskLevels]_vars

\* Two feed lines drawn, nothing parsed yet.
InitParse ==
    InitReader /\ InitStore /\ InitCompile /\ InitUpsert /\ IdleOrder /\ IdleRange
        /\ IdleFetch /\ IdleIngest /\ IdleLookupAll /\ InitNode /\ IdleScore /\ DrawParse /\ IdleFlag /\ DefaultConf /\ IdleJobs /\ InitApi /\ IdleLines
SpecParse == InitParse /\ [][ParseNext]_vars

\* RunOnce under any configuration; every goroutine that can take a step
\* eventually takes one (every fetch and store call returns).
InitOnceAny ==
    InitReader /\ InitStore /\ InitCompile /\ InitUpsert /\ IdleOrder /\ IdleRange /\ IdleFetch
        /\ OnceIngestAny /\ IdleLookupAll /\ InitNode /\ IdleScore /\ IdleParse /\ IdleFlag /\ AnyConf /\ IdleJobs /\ InitApi /\ IdleLines
SpecOnceFair == InitOnceAny /\ [][OnceNext]_vars /\ WF_vars(OnceNext)

\* RunOnce with the default concurrency: the feed goroutines interleave.
InitOnceWide ==
    InitReader /\ InitStore /\ InitCompile /\ InitUpsert /\ IdleOrder /\ IdleRange /\ IdleFetch
        /\ OnceIngest /\ IdleLookupAll /\ InitNode /\ IdleScore /\ IdleParse /\ IdleFlag /\ WideConf /\ IdleJobs /\ InitApi /\ IdleLines
SpecOnceWide == InitOnceWide /\ [][OnceNext]_vars

\* Two runs of storeEntries for one feed, and the clock.
SpecJobs == Init /\ [][JobNext]_vars

\* The API: checks of one address while ReloadMMDB runs.
SpecApi == Init /\ [][ApiNext]_vars

\* parseContent over drawn lines, twice.
InitLines ==
    InitReader /\ InitStore /\ InitCompile /\ InitUpsert /\ IdleOrder /\ IdleRange /\ IdleFetch
        /\ IdleIngest /\ IdleLookupAll /\ InitNode /\ IdleScore /\ IdleParse /\ IdleFlag /\ DefaultConf /\ IdleJobs /\ InitApi /\ DrawLines
SpecLines == InitLines /\ [][LinesNext]_vars

\* Callers of Ingestor.Start and Ingestor.Stop.
SpecFlag == Init /\ [][FlagNext]_vars

\* Concurrent calls of Reader.Reload.
InitReload ==
    InitSwappers /\ InitStore /\ InitCompile /\ InitUpsert /\ IdleOrder /\ IdleRange
        /\ IdleFetch /\ IdleIngest /\ IdleLookupAll /\ InitNode /\ IdleScore /\ IdleParse /\ IdleFlag /\ DefaultConf /\ IdleJobs /\ InitApi /\ IdleLines
SpecReload == InitReload /\ [][ReloadNext]_vars

\* The judge node serving checks and reloading its Reader.
SpecNode == Init /\ [][NodeNext]_vars

\* One call of Reader.LookupAll.
SpecLookup == InitLookupAll /\ [][LookupAllNext]_vars

\* The store, the clock and the sweep; the clock advances and the sweep is
\* run again and again.
SpecSweep ==
    Init /\ [][SweepNext]_vars /\ WF_vars(Tick) /\ WF_vars(CleanupExpired)

\* The daemon's initial run: Start, runAllFeeds and the feed goroutines.
SpecRun == InitDaemon /\ [][RunNext]_vars

\* The ingestor in -once mode: RunOnce and the exit code.
SpecOnce == InitOnce /\ [][OnceNext]_vars

\* Upsert applied to two observations in both orders.
SpecOrder == InitOrder /\ [][OrderNext]_vars

\* IPRangeFromPrefix applied to two prefixes.
SpecRange == InitRange /\ [][RangeNext]_vars

\* Upserts into table ip_reputation; Reader and compiler at rest.
SpecStore == Init /\ [][UpsertNext]_vars

\* The Reader by itself: lookups and reloads; store and compiler at rest.
SpecReader == Init /\ [][ReaderNext]_vars

\* Feeds stored and compiled again and again at one time of day, every file
\* operation of CompileToMMDB free to fail.
WriterNext ==
    \/ \E f \in Feeds, target \in FeedTargets : StoreEntries(f, target)
    \/ CompileFetch
    \/ CompileBuild
    \/ CompileCreate
    \/ CompileWrite
    \/ CompileRename
    \/ CompileReturn

SpecWriter == Init /\ [][WriterNext]_vars

\* Ingest, compile and the compiled file; the Reader at rest.
SpecCompile == Init /\ [][CompileNext]_vars

-----------------------------------------------------------------------------
(* Claims about the Reader, checked under SpecReader.                       *)

\* Number of Reload calls begun so far.
ReloadsStarted == Cardinality({t \in ReloadThreads : rl[t].pc # "idle"})

\* C1: with lookups interleaved with one Reload, every finished LookupAll took
\* its reputation, geo and ASN parts from one handle triple the Reader held
\* (the pre-reload or the post-reload one), never from a mix of the two.
C1_LookupAllSingleSnapshot ==
    \A t \in LookupThreads :
        (lk[t].pc = "done" /\ ReloadsStarted <= 1) => lk[t].got \in installed

\* C2: no lookup reads a handle that is closed: a handle a lookup has loaded
\* under the read lock stays open until the lookup unlocks, installed handles
\* are open, and so Reload closes a handle only after the swap and after
\* every lookup using it has finished.
C2_NoLookupOnClosedHandle ==
    /\ \A t \in LookupThreads :
          /\ ~lk[t].usedClosed
          /\ lk[t].cur # NilDB => hstate[lk[t].cur] = "open"
    /\ \A h \in {reputationDB, geoipDB, asnDB} \ {NilDB} : hstate[h] = "open"

\* C2 witness: a lookup is reading the handle it loaded under the read lock
\* while a Reload that has opened the replacement waits for the write lock.
C2_Witness ==
    \E t \in LookupThreads, r \in ReloadThreads :
        /\ lk[t].pc = "use"
        /\ lk[t].cur # NilDB
        /\ rl[r].pc = "lock"
        /\ rl[r].newRep # NilDB

-----------------------------------------------------------------------------
(* Claims about compilation, checked under SpecCompile.                     *)

\* the entries of the running compile whose prefix contains address a
Containing(a) ==
    {i \in 1..Len(comp.reputations) : PrefixContains(comp.reputations[i].IPRange, a)}

\* the active observations of the running compile for prefix p, in row order
ObservationsOf(p) == SelectSeq(comp.reputations, LAMBDA rep : rep.IPRange = p)

\* the prefixes whose record is visible at some address of the built tree
VisiblePrefixes == {comp.tree[a].net : a \in Addrs} \ {NoCidr}

\* the record the built tree holds for prefix p
RecordOf(p) == comp.tree[CHOOSE a \in Addrs : comp.tree[a].net = p].rec

\* C3: in the tree CompileToMMDB builds from its entries, in whatever order
\* they were inserted, an address outside the reserved networks resolves to
\* the longest entry prefix containing it, and to no record when no entry
\* prefix contains it.
C3_LongestPrefixMatch ==
    comp.pc = "built" =>
        \A a \in Addrs : ~InReserved(a) =>
            IF Containing(a) = {}
            THEN ~LookupReputation(comp.tree, a).found
            ELSE \E i \in Containing(a) :
                    /\ \A j \in Containing(a) :
                          comp.reputations[j].IPRange.bits
                              <= comp.reputations[i].IPRange.bits
                    /\ comp.tree[a].net = comp.reputations[i].IPRange

\* C4: the record compiled for a prefix merges all active observations of
\* that prefix: its sources are every distinct source once, its flags the
\* union of the per-observation flags, its confidence the maximum confidence
\* and its last_update the maximum last_seen.
C4_MergedRecord ==
    comp.pc = "built" =>
        \A p \in VisiblePrefixes :
            LET obs == ObservationsOf(p)
                idx == 1..Len(obs)
                rec == RecordOf(p)
            IN  /\ {rec.Sources[k] : k \in 1..Len(rec.Sources)}
                       = {obs[i].Source : i \in idx}
                /\ Len(rec.Sources) = Cardinality({obs[i].Source : i \in idx})
                /\ rec.Flags = UNION {threatTypeToFlags(obs[i].ThreatType) : i \in idx}
                /\ \A i \in idx : /\ rec.Confidence >= obs[i].Confidence
                                   /\ rec.LastUpdate >= obs[i].LastSeen
                /\ \E i \in idx : rec.Confidence = obs[i].Confidence
                /\ \E i \in idx : rec.LastUpdate = obs[i].LastSeen

\* the models.Threat list of all observations of prefix p
ThreatsOf(p) ==
    LET obs == ObservationsOf(p)
    IN  [i \in 1..Len(obs) |->
            [ThreatType |-> obs[i].ThreatType, Source |-> obs[i].Source,
             Confidence |-> obs[i].Confidence,
             LastSeen |-> obs[i].LastSeen * TickHours, Weight |-> obs[i].Weight]]

\* C5: the risk_score compiled for a prefix is CalculateScore of the full
\* list of that prefix's active observations, and its risk_level is the
\* classification of that score.
C5_ScoreOfAllObservations ==
    comp.pc = "built" =>
        \A p \in VisiblePrefixes :
            LET score == CalculateScore(ThreatsOf(p), NoASN, comp.cnow * TickHours)
            IN  /\ RecordOf(p).RiskScore = score
                /\ RecordOf(p).RiskLevel = classifyRisk(score)

\* C6: a compile over the same set of active observations and at the same
\* reference time as the compile that produced the file at the output path
\* builds a DB with the same lookup answer for every address.
C6_CompileDeterministic ==
    (/\ comp.pc = "built"
     /\ fs.out.kind = "db"
     /\ fileMeta = [snap |-> comp.snap, cnow |-> comp.cnow])
        => \A a \in Addrs : LookupAll(comp.tree, a) = LookupAll(fs.out.tree, a)

\* C7: while CompileToMMDB runs, the output path holds the complete file it
\* held when the compile began or the complete new DB, never a partial
\* file; and after a failed compile it holds what it held before.
C7_OutputFileAtomic ==
    /\ fs.out.kind # "partial"
    /\ comp.pc # "idle" =>
          /\ fs.out \in {comp.fileAtStart, DbFile(comp.tree)}
          /\ comp.pc \in {"fetched", "built", "created", "written"}
                => fs.out = comp.fileAtStart
          /\ comp.result = "error" => fs.out = comp.fileAtStart

\* C7 witness: a compile that found a previous DB at the output path has
\* created its temporary file and is writing a different tree into it.
C7_Witness ==
    /\ comp.pc = "created"
    /\ fs.tmp.kind = "partial"
    /\ fs.out.kind = "db"
    /\ fs.out.tree # comp.tree

\* C8: when Compile has returned success, every address that resolves in the
\* DB at the output path resolves to the prefix of an observation that was
\* active in that compile's snapshot; after a successful compile of an empty
\* snapshot no address resolves.
C8_OnlyActivePrefixes ==
    (comp.pc = "returned" /\ comp.result = "ok") =>
        \A a \in Addrs :
            (fs.out.kind = "db" /\ LookupReputation(fs.out.tree, a).found)
                => \E r \in comp.snap : IPRange(r) = fs.out.tree[a].net

\* C9: after a compile has returned success, an address covered by a
\* whitelist entry that was active when the compile read the store is
\* reported with risk score 0 and no threat flag.
C9_WhitelistOverrides ==
    (comp.pc = "returned" /\ comp.result = "ok") =>
        \A a \in Addrs :
            IsWhitelisted(comp.wl, a, now) =>
                /\ performIPCheck(fs.out, a).Score = 0
                /\ performIPCheck(fs.out, a).Flags = {}

-----------------------------------------------------------------------------
(* Claims about the store's upserts, checked under SpecStore.               *)

\* the observations applied for the key of row r
UpsertedFor(r) == {o \in upserted : SameKey(o, r)}

\* C10: after any sequence of upserts the table holds one row per
\* (ip_start, ip_end, source) that was upserted and no other row, and the
\* row's confidence and weight are the maximum confidence and the maximum
\* weight of the observations upserted for its key.
C10_OneRowPerKeyWithMaxima ==
    /\ \A r1, r2 \in store : SameKey(r1, r2) => r1 = r2
    /\ \A o \in upserted : \E r \in store : SameKey(r, o)
    /\ \A r \in store :
          /\ UpsertedFor(r) # {}
          /\ \A o \in UpsertedFor(r) :
                r.confidence >= o.confidence /\ r.weight >= o.weight
          /\ \E o \in UpsertedFor(r) : r.confidence = o.confidence
          /\ \E o \in UpsertedFor(r) : r.weight = o.weight

\* C10 witness: two keys have rows, and one row, upserted at two different
\* times, holds a higher confidence than one of its observations and a
\* higher weight than one of its observations.
C10_Witness ==
    /\ Cardinality(store) >= 2
    /\ \E r \in store :
          /\ r.last_seen > r.first_seen
          /\ \E o \in UpsertedFor(r) : o.confidence < r.confidence
          /\ \E o \in UpsertedFor(r) : o.weight < r.weight

-----------------------------------------------------------------------------
(* Claims about the upsert as a function, checked under SpecOrder.          *)

\* C11: conflict resolution is commutative: two observations with the same
\* (ip_start, ip_end, source) leave the same table whichever is upserted
\* first.
C11_UpsertCommutes ==
    (ordStep = 2 /\ SameKey(obsA, obsB)) => tabAB = tabBA

\* obsB is obsA observed again, at the same or a later time
IsRepeat ==
    /\ obsB.last_seen >= obsA.last_seen
    /\ obsB = [obsA EXCEPT !.first_seen = obsB.first_seen,
                           !.last_seen = obsB.last_seen]

\* C12: upserting an observation a second time creates no second row and
\* leaves the row as the first upsert made it, confidence, weight,
\* first_seen and threat_type included, except that last_seen is the later
\* one.
C12_RepeatChangesOnlyLastSeen ==
    (ordStep = 2 /\ IsRepeat) =>
        tabAB = {[obsA EXCEPT !.last_seen = obsB.last_seen]}

\* C12 witness: an observation has been upserted, and then again at a later
\* time.
C12_Witness ==
    /\ ordStep = 2
    /\ IsRepeat
    /\ obsB.last_seen > obsA.last_seen

-----------------------------------------------------------------------------
(* Claims about IPRangeFromPrefix, checked under SpecRange.                 *)

\* the addresses of either family inside prefix p
Members(p) == {a \in Addrs \cup Addrs6 : PrefixContains(p, a)}

\* C13: for every valid prefix, IPv4 or IPv6, IPRangeFromPrefix returns the
\* first and the last address of the prefix, an address is in the prefix
\* exactly when start <= address <= end, and prefixes of two different
\* networks get different (start, end) pairs.
C13_RangeIsPrefix ==
    (rngOut[1] # NoRange /\ rngOut[2] # NoRange) =>
        /\ \A a \in Members(rngP) : rngOut[1][1] <= a /\ a <= rngOut[1][2]
        /\ rngOut[1][1] \in Members(rngP) /\ rngOut[1][2] \in Members(rngP)
        /\ \A a \in Addrs \cup Addrs6 :
              (rngOut[1][1] <= a /\ a <= rngOut[1][2]) => a \in Members(rngP)
        /\ Masked(rngP) # Masked(rngQ) => rngOut[1] # rngOut[2]

-----------------------------------------------------------------------------
(* Claims about fetchSource, checked under SpecFetch.                       *)

\* the positions of the HTTP attempts in the log
AttemptsAt == {k \in 1..Len(fetchLog) : fetchLog[k] # "sleep"}

\* C16: fetchSource makes at most max_retries + 1 HTTP attempts, none after
\* an attempt that returned 200, sleeps retry_delay exactly between
\* consecutive attempts and not after the last one, and returns an error when
\* no attempt returned 200.
C16_RetryLoop ==
    /\ Cardinality(AttemptsAt) <= maxRetries + 1
    /\ \A k \in 1..Len(fetchLog) : fetchLog[k] = "200" => k = Len(fetchLog)
    /\ \A k \in 1..(Len(fetchLog) - 1) :
          (k \in AttemptsAt) # (k + 1 \in AttemptsAt)
    /\ fetchLog # <<>> => 1 \in AttemptsAt
    /\ fetchRet # "none" =>
          /\ Len(fetchLog) \in AttemptsAt
          /\ (\A k \in AttemptsAt : fetchLog[k] # "200") =>
                (fetchRet = "error" /\ Cardinality(AttemptsAt) = maxRetries + 1)

\* C16 witness: with retries configured, fetchSource gave up after
\* max_retries + 1 failed attempts.
C16_Witness ==
    /\ maxRetries >= 2
    /\ fetchRet = "error"
    /\ Cardinality(AttemptsAt) = maxRetries + 1
    /\ \A k \in AttemptsAt : fetchLog[k] # "200"

-----------------------------------------------------------------------------
(* Claims about the ingestor daemon, checked under SpecDaemon.              *)

\* C14: at every moment at most ingestor.concurrency feeds are being
\* processed, counting the goroutines of the initial run and those of the
\* cron ticks.
C14_ConcurrencyCap ==
    Cardinality({w \in WorkerIds : InFlight(w)}) <= Concurrency

\* C15: once ctx is cancelled, no feed goroutine begins another source fetch
\* or another batch upsert (fetchSource is only entered right after the
\* check of ctx.Done(); lateStarts holds what was begun after the
\* cancellation).
C15_NothingBegunAfterCancel == lateStarts = {}

\* C20: when Stop has returned, no feed goroutine of the ingestor is still
\* in flight, whether the initial run or a cron tick started it.
C20_StopWaitsForInFlight ==
    mainPc = "stopped" => \A w \in WorkerIds : ~InFlight(w)

-----------------------------------------------------------------------------
(* Claim about a feed tick, checked under SpecRun.                          *)

\* the sources of a feed in configured order
AllSources == [k \in 1..NumSources |-> k]

\* C17: without cancellation a feed goroutine attempts the sources of its
\* feed once each, in order, whatever fails: what it has attempted is always
\* the first sources in order, it returns only after the last one, and when
\* the run of all feeds is over every enabled feed has been processed.
C17_EverySourceAttempted ==
    /\ \A w \in WorkerIds :
          /\ workers[w].attempted = [k \in 1..Len(workers[w].attempted) |-> k]
          /\ (workers[w].pc = "return" /\ ~workers[w].err) =>
                workers[w].attempted = AllSources
    /\ startPc \in {"ctxwait", "returned"} =>
          \A f \in Feeds : workers[[kind |-> "run", feed |-> f, tick |-> 0]].pc = "done"

\* C17 witness: after an earlier source of its feed failed, a feed goroutine
\* has fetched the last source and begins to store it, while the other feed
\* has not been started yet.
C17_Witness ==
    \E w \in WorkerIds :
        /\ workers[w].pc = "store"
        /\ workers[w].batch = 1
        /\ workers[w].src = NumSources
        /\ workers[w].failed
        /\ workers[w].attempted = AllSources
        /\ toSpawn # {}

-----------------------------------------------------------------------------
(* Claims about -once mode, checked under SpecOnce.                         *)

\* C18: a batch that has an error does not stop the later batches of the
\* source, and the count reported for a source, for a feed, and in RunOnce's
\* total is the number of entries of the batches that had no error.
C18_BatchErrorsIsolated ==
    /\ \A w \in WorkerIds :
          /\ workers[w].pc = "stored" =>
                /\ ~workers[w].storeErr
                /\ workers[w].batch = NumBatches + 1
                /\ workers[w].stored + workers[w].totalInserted = workers[w].okStored
          /\ workers[w].pc \in {"loop", "return"} => workers[w].stored = workers[w].okStored
    /\ totalStored = okTotalStored

\* C19: -once mode exits with 1 when a source of an enabled feed failed to
\* fetch or to store, and with 0 otherwise.
C19_ExitCodeReportsFailures ==
    mainPc = "exited" => (exitCode = 1 <=> anyFailed)

-----------------------------------------------------------------------------
(* Claim about expiry, checked under SpecSweep.                             *)

\* C21: an observation that its feed no longer lists does not stay forever:
\* once the feeds have stopped listing, eventually every row left in the
\* store has an expires_at that has not passed, rows without one or with one
\* in the past having been swept, so that no later compile reads them.
C21_StaleObservationsSwept ==
    <>[](\A r \in store : r.expires_at # NoTime /\ r.expires_at >= now)

-----------------------------------------------------------------------------
(* Claim about the errors of LookupAll, checked under SpecLookup.           *)

\* C22: LookupAll returns an error exactly when the reputation lookup
\* failed, a reputation DB that is not loaded included; a failed geo or ASN
\* lookup only leaves that part of the result absent.
C22_ReputationErrorsPropagate ==
    laPc = "done" =>
        /\ (laResult.err # "nil") <=> LookupReputationErr(laDbs.rep)
        /\ LookupOptionalErr(laDbs.geo) => laResult.geo = "absent"
        /\ LookupOptionalErr(laDbs.asn) => laResult.asn = "absent"

-----------------------------------------------------------------------------
(* Claim about reloads of the judge node, checked under SpecNode.           *)

\* C23: while a reload is opening the new files, before its swap, lookups
\* are not blocked: neither the node's lock nor the Reader's lock is
\* write-held, so a check can take its read locks and complete.
C23_LookupsNotBlockedWhileOpening ==
    \A t \in ReloadThreads :
        rl[t].pc \in {"openOpt", "lock"} => (nodeWriter = NoThread /\ CanRLock)

-----------------------------------------------------------------------------
(* Claim about concurrent reloads, checked under SpecReload.                *)

\* the handles a finished Reload saved as old and closed
OldsOf(t) == {rl[t].oldRep, rl[t].oldGeo, rl[t].oldAsn} \ {NilDB}
\* the handles a Reload opened
NewsOf(t) == {rl[t].newRep, rl[t].newGeo, rl[t].newAsn} \ {NilDB}
Swapped == {t \in Swappers : rl[t].pc = "done" /\ ~rl[t].err}
InstalledNow == {reputationDB, geoipDB, asnDB} \ {NilDB}

\* C24: after all concurrent Reload calls have returned, the installed
\* triple is the one opened by a single call (the constructor's if every
\* Reload failed) and its handles are open; every other handle that was
\* ever opened is closed, and no two calls closed the same handle.
C24_ReloadsSerialised ==
    (\A t \in Swappers : rl[t].pc = "done") =>
        /\ \/ \E t \in Swapped :
                <<reputationDB, geoipDB, asnDB>> =
                    <<rl[t].newRep, rl[t].newGeo, rl[t].newAsn>>
           \/ Swapped = {} /\ <<reputationDB, geoipDB, asnDB>> = <<1, 2, 3>>
        /\ \A h \in InstalledNow : hstate[h] = "open"
        /\ \A h \in DOMAIN hstate :
              (hstate[h] # "unopened" /\ h \notin InstalledNow) => hstate[h] = "closed"
        /\ \A t1, t2 \in Swapped : t1 # t2 => OldsOf(t1) \cap OldsOf(t2) = {}
        /\ \A h \in DOMAIN hstate :
              hstate[h] = "closed" => \E t \in Swapped : h \in OldsOf(t)

\* two Reloads both swapped; the first one's handles were closed by the second
C24_Witness ==
    /\ \A t \in Swappers : rl[t].pc = "done"
    /\ Swapped = Swappers
    /\ \E t \in Swappers :
          /\ NewsOf(t) # {}
          /\ \A h \in NewsOf(t) : hstate[h] = "closed"

-----------------------------------------------------------------------------
(* Claims about the scoring engine, checked under SpecScore, SpecDecay and  *)
(* SpecClassify.                                                            *)

\* C25: for every list of observations, every optional ASN info and every
\* reference time, CalculateScore returns an integer in [0, 100], and
\* exactly 0 for the empty list.
C25_ScoreWithinBounds ==
    scPc = "done" =>
        /\ scOut \in 0..100
        /\ scIn.threats = <<>> => scOut = 0

\* two fresh botnet observations, whose sum lies far above 100, score 100
C25_Witness ==
    /\ scPc = "done"
    /\ Len(scIn.threats) = 2
    /\ \A i \in 1..2 : /\ scIn.threats[i].ThreatType = "botnet_c2"
                       /\ scIn.threats[i].Confidence = 90
                       /\ scIn.threats[i].LastSeen = scIn.now
    /\ scOut = 100

\* The reference computation, as one fraction over 2000000: the sum of
\* weight x confidence x D(age) in 1/10000, times 11/10 for several threat
\* types, plus the ASN modifier, times 23/20 for datacenter or hosting,
\* plus the bonus.
RefConfidence(t) == IF t.Confidence = 0 THEN 50 ELSE t.Confidence
RECURSIVE RefSum(_, _, _)
RefSum(threats, n, nowHours) ==
    IF n = 0 THEN 0
    ELSE RefSum(threats, n - 1, nowHours)
         + getThreatWeight(threats[n].ThreatType) * RefConfidence(threats[n])
             * calculateDecay(threats[n].LastSeen, nowHours)
RefTotal(threats, asnInfo, nowHours) ==
    LET multi == IF \E i, j \in 1..Len(threats) :
                        threats[i].ThreatType # threats[j].ThreatType
                 THEN 11 ELSE 10
        dc == IF asnInfo # NoASN /\ asnInfo.ASNType \in {"datacenter", "hosting"}
              THEN 23 ELSE 20
        modifier == IF asnInfo = NoASN THEN 0 ELSE getASNModifier(asnInfo.ASNType)
        bonus == IF \E i \in 1..Len(threats) : threats[i].Confidence >= 90
                 THEN 5 ELSE 0
    IN  RefSum(threats, Len(threats), nowHours) * multi * dc
            + modifier * 100000 * dc + bonus * 2000000
\* the integer nearest to num / 2000000, the farther from zero of two
RefRounded(num) ==
    CHOOSE n \in -60..600 :
        IF num >= 0
        THEN (2 * n - 1) * 1000000 <= num /\ num < (2 * n + 1) * 1000000
        ELSE (2 * n - 1) * 1000000 < num /\ num <= (2 * n + 1) * 1000000
RefScore(threats, asnInfo, nowHours) ==
    IF threats = <<>> THEN 0
    ELSE LET n == RefRounded(RefTotal(threats, asnInfo, nowHours))
         IN  IF n < 0 THEN 0 ELSE IF n > 100 THEN 100 ELSE n

C27_DecayFactor ==
    scPc = "done" =>
        /\ scOut \in 10..100
        /\ scOut =
             IF scIn.lastSeen = NoTime THEN 50
             ELSE IF scIn.now - scIn.lastSeen <= 24 THEN 100
             ELSE IF scIn.now - scIn.lastSeen > MaxAgeHours THEN 10
             ELSE Max(10, ExpDecay(scIn.now - scIn.lastSeen))

RiskLevels == <<"clean", "low", "medium", "high", "critical">>
RiskRank(level) == CHOOSE i \in 1..5 : RiskLevels[i] = level
RiskThreshold == [clean |-> -1000000, low |-> 25, medium |-> 50, high |-> 70,
                  critical |-> 85]

-----------------------------------------------------------------------------
(* Claim about the prefixes of parsed observations, checked under SpecParse.*)

\* the canonical prefix a token denotes
Canonical(tok) ==
    Masked(Prefix(Unmap(ParseAddr(tok.lit)), tok.bits))

\* C29: every observation the parser emits and the ingestor stores carries
\* a canonical prefix (host bits zero, an IPv4-mapped IPv6 address unmapped),
\* so two lines of a feed that differ only in host bits or in the mapping
\* get the same store key.
C29_CanonicalPrefixes ==
    psDb # <<>> =>
        /\ \A i \in 1..2 :
              /\ psEntries[i].isPrefix => psEntries[i].Prefix = Masked(psEntries[i].Prefix)
              /\ ~psEntries[i].isPrefix => psEntries[i].IP \notin Addrs4In6
        /\ (/\ psLines[1].slash = psLines[2].slash
            /\ Canonical(psLines[1]) = Canonical(psLines[2]))
              => SameKey(psDb[1], psDb[2])

\* C30: an observation ingested as a single address is compiled as the
\* host prefix of that address, /32 for IPv4 and /128 for IPv6.
C30_SingleAddressIsHostPrefix ==
    psCompiled # <<>> =>
        \A i \in 1..2 :
            ~psEntries[i].isPrefix =>
                psCompiled[i] = Prefix(psEntries[i].IP, AddrBits)

-----------------------------------------------------------------------------
(* Claim about what a Reload leaves installed, checked under SpecReload.    *)

\* C40: a Reload never replaces a loaded database with none: the three
\* databases NewReader loaded stay loaded, from the old or the new file,
\* after any Reload, and a Reload that returns an error has opened and
\* changed nothing.
C40_ReloadKeepsLoaded ==
    /\ reputationDB # NilDB /\ geoipDB # NilDB /\ asnDB # NilDB
    /\ \A t \in DOMAIN rl :
          rl[t].err => /\ rl[t].newRep = NilDB
                       /\ rl[t].oldRep = NilDB

\* C36: for every score in 0..100 the three risk-level classifiers,
\* Scorer.ClassifyRisk, the writer's classifyRisk and models.GetRiskLevel,
\* return the same level, one of clean, low, medium, high, critical.
C36_ClassifiersAgree ==
    (scPc = "done" /\ scIn.score \in 0..100) =>
        /\ scOut[1] = scOut[2]
        /\ scOut[2] = scOut[3]
        /\ scOut[1] \in {"clean", "low", "medium", "high", "critical"}

-----------------------------------------------------------------------------
(* Claim about Ingestor.running, checked under SpecFlag.                    *)

\* caller c leaves the locked section of its call in this step
LeavesLocked(c) == calls[c].pc = "locked" /\ calls'[c].pc # "locked"

\* C33: the running flag is a two-state machine guarded by the mutex.  The
\* flag changes only in a step of the caller that holds the mutex; a Start
\* that finds it stopped sets it; a Start that finds it running returns
\* "ingestor already running" and schedules nothing; a Stop that finds it
\* running ends by clearing it; a Stop that finds it stopped changes
\* nothing; and the feeds are scheduled only by a Start that set the flag.
C33_RunningFlagMachine ==
    [][ /\ irunning \in BOOLEAN
        /\ irunning' # irunning => imu # NoThread /\ imu' = NoThread
        /\ \A c \in Callers :
              /\ (LeavesLocked(c) /\ calls[c].op = "start" /\ ~irunning)
                    => irunning' /\ calls'[c].pc = "schedule"
              /\ (LeavesLocked(c) /\ calls[c].op = "start" /\ irunning)
                    => /\ irunning'
                       /\ calls'[c].pc = "done"
                       /\ calls'[c].ret = "ingestor already running"
                       /\ scheduled' = scheduled
              /\ (LeavesLocked(c) /\ calls[c].op = "stop" /\ irunning)
                    => calls'[c].pc = "stopping" /\ imu' = c
              /\ (calls[c].pc = "stopping" /\ calls'[c].pc # "stopping")
                    => ~irunning' /\ calls'[c].ret = "stopped"
              /\ (LeavesLocked(c) /\ calls[c].op = "stop" /\ ~irunning)
                    => /\ ~irunning'
                       /\ calls'[c].pc = "done"
                       /\ scheduled' = scheduled
        /\ scheduled' # scheduled =>
              \E c \in Callers : calls[c].pc = "schedule" /\ calls[c].op = "start"
      ]_vars

\* a second Start returned its error while the first one was serving, and
\* the feeds were scheduled once
C33_Witness ==
    /\ scheduled = 1
    /\ \E c, e \in Callers :
          /\ calls[c].pc = "serving"
          /\ calls[e].pc = "done" /\ calls[e].ret = "ingestor already running"

-----------------------------------------------------------------------------
(* Claim about the termination of RunOnce, checked under SpecOnceFair.      *)

\* C38: RunOnce eventually returns for every configuration, any
\* concurrency from 0 on and any set of enabled feeds, provided every fetch
\* and store call returns.
C38_RunOnceReturns == <>(startPc = "returned")

-----------------------------------------------------------------------------
(* Claim about the totals of RunOnce, checked under SpecOnceWide.           *)

RunWorker(f) == [kind |-> "run", feed |-> f, tick |-> 0]

\* the feed goroutines that end in this step
Ending == {w \in WorkerIds : workers[w].pc = "return" /\ workers'[w].pc = "done"}

\* C39: RunOnce processes every enabled feed exactly once and returns only
\* after all of them have finished: a feed goroutine that has ended is never
\* started again, none is started after the return, and at the return every
\* feed's goroutine has ended.  Each goroutine that ends adds exactly its own
\* counts to totalEntries and totalStored, whatever the other goroutines do,
\* and totalStored never exceeds totalEntries.
C39_RunOnceTotals ==
    [][/\ \A w \in WorkerIds :
             /\ workers[w].pc = "done" => workers'[w].pc = "done"
             /\ workers'[w].pc = "idle" => workers[w].pc = "idle"
             /\ (workers[w].pc = "idle" /\ workers'[w].pc # "idle") =>
                    startPc # "returned"
       /\ \A w \in Ending :
             /\ totalEntries' = totalEntries + workers[w].entries
             /\ totalStored' = totalStored + workers[w].stored
       /\ Ending = {} => totalEntries' = totalEntries /\ totalStored' = totalStored
       /\ totalStored' <= totalEntries'
       /\ startPc' = "returned" =>
             /\ toSpawn' = {}
             /\ \A f \in Feeds : workers'[RunWorker(f)].pc = "done"
             /\ totalEntries' = totalEntries /\ totalStored' = totalStored
      ]_vars

\* C39 witness: while the other feed goroutine is still running with counts
\* of its own, one ends and adds its counts to the totals.
C39_Witness ==
    /\ \E f \in Feeds : /\ workers[RunWorker(f)].pc = "done"
                        /\ \E g \in Feeds \ {f} : /\ workers[RunWorker(g)].pc = "return"
                                                  /\ workers[RunWorker(g)].stored > 0
    /\ totalStored > 0
    /\ totalStored < totalEntries

-----------------------------------------------------------------------------
(* Claim about last_seen, checked under SpecJobs.                           *)

\* C37: whatever the interleaving of the runs that upsert the same
\* (ip_start, ip_end, source), a row's last_seen is never earlier than its
\* first_seen and never moves backwards.
C37_LastSeenMonotonic ==
    [][\A r \in store' :
          /\ r.last_seen >= r.first_seen
          /\ \A q \in store : SameKey(q, r) => r.last_seen >= q.last_seen]_vars

-----------------------------------------------------------------------------
(* Claims about the API's reload handler, checked under SpecApi.            *)

\* C34: no check executes a lookup on a Reader that ReloadMMDB has closed,
\* so the address, which every database lists, is never answered clean.
C34_NoLookupOnClosedReader ==
    \A t \in Checks :
        chk[t].result # NoAnswer =>
            /\ ~chk[t].result.onClosed
            /\ chk[t].result.level = "listed"

\* C35: once ReloadMMDB has returned success, a check that reads the cache
\* is not answered from an entry computed from the Reader that was replaced.
C35_NoStaleCacheAfterReload ==
    \A t \in Checks :
        (chk[t].pc = "done" /\ chk[t].afterReload /\ chk[t].result.Cached) =>
            chk[t].result.from = mmdbReader

-----------------------------------------------------------------------------
(* Claims about parseContent, checked under SpecLines.                      *)

\* the token the rule of the format extracts from the line is the line's
\* token alone, and that token is an address or a prefix
TokenExtracted(format, line) ==
    /\ line.tok # BadToken
    /\ CASE format = "plain" -> line.port = "" /\ line.tail = ""
         [] format = "ip_port" -> TRUE
         [] format = "cidr_comments" -> line.port = "" /\ line.tail # "#"
         [] format = "netset" -> line.port = ""

\* C31: for a line that is not skipped (and, for ip_port, has a port) the
\* parser emits an observation exactly when the token the format's rule
\* extracts is a valid address or prefix: the whole line for plain, the part
\* left of the last ":" for ip_port whatever the port is, the part left of
\* the first ";" for cidr_comments, the token without its trailing
\* commentary for netset; and the observation is that token's.
C31_TokenPerFormat ==
    [][(/\ lnPc = "loop" /\ lnI <= NumLines /\ lnI' # lnI
        /\ ~Skipped(lnLines[lnI])
        /\ (lnFormat = "ip_port" => lnLines[lnI].port # ""))
          => lnEntries' =
                IF TokenExtracted(lnFormat, lnLines[lnI])
                THEN Append(lnEntries,
                            FeedEntry("spamhaus_drop", ParseIPOrPrefix(lnLines[lnI].tok)))
                ELSE lnEntries]_vars

\* the entries of the lines that are not skipped and parse under the format
RECURSIVE EntriesOf(_, _)
EntriesOf(format, lines) ==
    IF lines = <<>> THEN <<>>
    ELSE LET line == Head(lines)
             rest == EntriesOf(format, Tail(lines))
         IN  IF Skipped(line) \/ ParseLine(format, line).err THEN rest
             ELSE <<FeedEntry("spamhaus_drop", ParseLine(format, line).val)>> \o rest

=============================================================================
